---- MODULE Spec2Model ----
(***************************************************************************)
(* Verification model of the citation-grounded answering pipeline          *)
(* (rag/rag_answer.py, rag/types.py, rag/llm/gemini.py) and of the bounded *)
(* retrieve-assess-refine agent loop (rag/lc/graph.py, rag/lc/state*.py).  *)
(*                                                                         *)
(* Strings are modelled by what the code observes of them:                 *)
(*  - a chunk text is a record of the facts the code extracts from it      *)
(*    (length, blank-ness, anchor terms, numbered algorithm steps, topic   *)
(*    mentions, role phrase, shape of its first sentence);                 *)
(*  - an answer text is a record [body, sents, span]: body is the literal  *)
(*    string when the text is one of the fixed strings, and PROSE          *)
(*    otherwise; sents is the list of sentences as split by _sentences,    *)
(*    each given by the set of citation keys its bracket markers hold;     *)
(*    span is the set of keys of markers that are found in the whole text  *)
(*    but in no single sentence (a bracket crossing a sentence boundary).  *)
(*  - citation key "c<i>" is the integer i.                                *)
(*  - scores are integers in units of 1e-6 (the neighbour score step).     *)
(***************************************************************************)
EXTENDS Integers, Sequences, FiniteSets, TLC

\* ------------------------------------------------------------------------
\* Bounds of the model
\* ------------------------------------------------------------------------
MaxHits == 3
MaxScore == 2
MaxIncoming == 1
MaxStepsBound == 8
MaxToolBound == 2
MaxRoundBound == 2
MaxMinHits == 2
MaxRankLen == 2
MaxVariantLen == 1
MaxRankings == 4
MaxFuseChunks == 2
MaxTopK == 2
MaxChunks == 3
MaxBlocks == 3
MaxPages == 3
MaxEvalHits == 2
MaxGold == 2
MaxK == 2
MaxBm25Docs == 2
MaxTf == 1
MaxQueryWords == 2
MaxContextChunks == 3
MaxThreads == 2

\* ------------------------------------------------------------------------
\* Program constants (rag/config.py, rag/types.py, rag/llm/gemini.py)
\* ------------------------------------------------------------------------
ASK_MAX_CONTEXT_CHUNKS == 6
ASK_MAX_CONTEXT_CHARS == 12000
ASK_MIN_EVIDENCE_HITS == 2
ASK_NEIGHBOR_WINDOW == 1
ASK_INCLUDE_NEIGHBOR_CHUNKS == TRUE
ASK_REQUIRE_CITATIONS == TRUE
GEN_ATTEMPTS == 3
MAX_FALLBACK_STEPS == 25
REFUSAL_TEXT == "not found in provided docs"

PROSE == "<prose>"
UNKNOWN_KEY == 99

\* ------------------------------------------------------------------------
\* Small helpers on sequences and sets
\* ------------------------------------------------------------------------
Range(s) == {s[i] : i \in DOMAIN s}

SeqsUpTo(S, n) == UNION {[1..k -> S] : k \in 0..n}

Prefix(s, n) == SubSeq(s, 1, IF n < Len(s) THEN n ELSE Len(s))

RECURSIVE SetToSortedSeq(_)
SetToSortedSeq(S) ==
    IF S = {} THEN <<>>
    ELSE LET m == CHOOSE x \in S : \A y \in S : x <= y
         IN  <<m>> \o SetToSortedSeq(S \ {m})

\* Python's None.
NoneValue == "<None>"

RECURSIVE FlattenSeq(_)
FlattenSeq(ss) == IF ss = <<>> THEN <<>> ELSE Head(ss) \o FlattenSeq(Tail(ss))

\* ------------------------------------------------------------------------
\* The chunk store (data/processed/chunk_store.jsonl): position = vector_id
\* ------------------------------------------------------------------------
Txt(len, blank, anchor, algblock, steps, topics, role, fs) ==
    [len |-> len, blank |-> blank, anchor |-> anchor, algblock |-> algblock,
     steps |-> steps, topics |-> topics, role |-> role, fs |-> fs]

CHUNK_STORE ==
    << [chunk_id |-> 1, doc_id |-> 1, start_page |-> 1, end_page |-> 1,
        text |-> Txt(2000, FALSE, TRUE, TRUE, <<"plain", "plain">>, {"a"}, "kem", "plain")],
       [chunk_id |-> 2, doc_id |-> 1, start_page |-> 1, end_page |-> 1,
        text |-> Txt(6000, FALSE, FALSE, TRUE, <<"plain", "split">>, {"b"}, "", "qmark")],
       [chunk_id |-> 3, doc_id |-> 1, start_page |-> 2, end_page |-> 3,
        text |-> Txt(3, TRUE, FALSE, FALSE, <<>>, {}, "", "")],
       [chunk_id |-> 4, doc_id |-> 2, start_page |-> 1, end_page |-> 1,
        text |-> Txt(3000, FALSE, FALSE, FALSE, <<>>, {"b"}, "sig", "plain")],
       [chunk_id |-> 5, doc_id |-> 2, start_page |-> 2, end_page |-> 2,
        text |-> Txt(6000, FALSE, TRUE, TRUE, <<>>, {"a", "b"}, "", "plain")] >>

ChunkIds == {CHUNK_STORE[v].chunk_id : v \in DOMAIN CHUNK_STORE}

Scores == {10 * s : s \in 1..MaxScore}

\* ChunkHit (rag/retriever/base.py) for a stored chunk, with a given score.
ChunkHit(rec, score) ==
    [score |-> score, chunk_id |-> rec.chunk_id, doc_id |-> rec.doc_id,
     start_page |-> rec.start_page, end_page |-> rec.end_page, text |-> rec.text]

AllHits == {ChunkHit(CHUNK_STORE[v], s) : v \in DOMAIN CHUNK_STORE, s \in Scores}

\* ------------------------------------------------------------------------
\* Questions, by what the code extracts from them
\* ------------------------------------------------------------------------
Question(kind, alg, anchors, compare, definition) ==
    [kind |-> kind, alg |-> alg, anchors |-> anchors, compare |-> compare,
     definition |-> definition]

\* A question that asks for a comparison of numbered algorithms.
CompareAlgorithmsQuestion == Question("compare", TRUE, TRUE, TRUE, FALSE)

Questions ==
    { Question("general", FALSE, FALSE, FALSE, FALSE),
      Question("algorithm", TRUE, TRUE, FALSE, FALSE),
      Question("compare", FALSE, FALSE, TRUE, FALSE),
      Question("definition", FALSE, FALSE, FALSE, TRUE) }

\* ------------------------------------------------------------------------
\* Answer texts
\* ------------------------------------------------------------------------
Lit(s) == [body |-> s, sents |-> <<>>, span |-> {}]

Prose(sents, span) == [body |-> PROSE, sents |-> sents, span |-> span]

\* str.strip() on the literals the model uses.
Strip(s) ==
    CASE s = " not found " -> "not found"
      [] s = "   " -> ""
      [] s = "  world  " -> "world"
      [] s = "\n\t" -> ""
      [] OTHER -> s

\* str.lower() on the literals the model uses.
Lower(s) ==
    CASE s = "Not Found In Provided Docs" -> "not found in provided docs"
      [] s = "NOT FOUND" -> "not found"
      [] OTHER -> s

StripText(t) == [t EXCEPT !.body = Strip(t.body)]

SentenceKeySets == {{}, {1}, {2}, {1, 2}, {UNKNOWN_KEY}}

\* What a generator may return.
GenTexts ==
    {Lit(s) : s \in {"", "   ", " not found ", "NOT FOUND",
                     "not found in documents", REFUSAL_TEXT,
                     "Not Found In Provided Docs"}}
    \cup {Prose(<<ks>>, {}) : ks \in SentenceKeySets}
    \cup {Prose(<<ks, ks2>>, {}) : ks \in SentenceKeySets, ks2 \in {{}, {2}}}
    \cup {Prose(<<ks>>, {1}) : ks \in {{}, {2}}}

\* ------------------------------------------------------------------------
\* rag/rag_answer.py : evidence selection
\* ------------------------------------------------------------------------
\* _stable_sort_key order: (-score, doc_id, start_page, end_page, chunk_id).
StableSortBefore(h1, h2) ==
    \/ h1.score > h2.score
    \/ /\ h1.score = h2.score
       /\ \/ h1.doc_id < h2.doc_id
          \/ /\ h1.doc_id = h2.doc_id
             /\ \/ h1.start_page < h2.start_page
                \/ /\ h1.start_page = h2.start_page
                   /\ \/ h1.end_page < h2.end_page
                      \/ /\ h1.end_page = h2.end_page
                         /\ h1.chunk_id < h2.chunk_id

\* sorted(best.values(), key=_stable_sort_key); keys are distinct after the
\* de-duplication by chunk_id.
RECURSIVE SortedByStableKey(_)
SortedByStableKey(S) ==
    IF S = {} THEN <<>>
    ELSE LET m == CHOOSE x \in S : \A y \in S \ {x} : StableSortBefore(x, y)
         IN  <<m>> \o SortedByStableKey(S \ {m})

\* The "best" dict: per chunk_id the first hit of strictly greatest score.
RECURSIVE BestByChunk(_, _)
BestByChunk(hits, best) ==
    IF hits = <<>> THEN best
    ELSE LET h == Head(hits)
             prev == {b \in best : b.chunk_id = h.chunk_id}
         IN  IF prev = {} THEN BestByChunk(Tail(hits), best \cup {h})
             ELSE IF \E b \in prev : h.score > b.score
                  THEN BestByChunk(Tail(hits), (best \ prev) \cup {h})
                  ELSE BestByChunk(Tail(hits), best)

\* _load_chunk_store_maps: chunk_id -> vector_id (0 when the chunk is unknown).
VectorIdOf(chunk_id) ==
    IF \E v \in DOMAIN CHUNK_STORE : CHUNK_STORE[v].chunk_id = chunk_id
    THEN CHOOSE v \in DOMAIN CHUNK_STORE : CHUNK_STORE[v].chunk_id = chunk_id
    ELSE 0

\* Candidates at distance delta, in the order (vector_id - delta, vector_id + delta).
NeighborsAt(hit, vid, delta) ==
    LET cand == <<vid - delta, vid + delta>>
        one(c) == IF c \in DOMAIN CHUNK_STORE /\ CHUNK_STORE[c].doc_id = hit.doc_id
                  THEN <<ChunkHit(CHUNK_STORE[c], hit.score - delta)>>
                  ELSE <<>>
    IN  one(cand[1]) \o one(cand[2])

_neighbor_hits(hit, window) ==
    IF window <= 0 THEN <<>>
    ELSE LET vid == VectorIdOf(hit.chunk_id)
         IN  IF vid = 0 THEN <<>>
             ELSE FlattenSeq([d \in 1..window |-> NeighborsAt(hit, vid, d)])

\* Append the items of `items` whose chunk_id is not yet in `acc`.
RECURSIVE AppendUnseen(_, _)
AppendUnseen(acc, items) ==
    IF items = <<>> THEN acc
    ELSE LET n == Head(items)
         IN  IF \E i \in DOMAIN acc : acc[i].chunk_id = n.chunk_id
             THEN AppendUnseen(acc, Tail(items))
             ELSE AppendUnseen(Append(acc, n), Tail(items))

RECURSIVE ExpandWithNeighbors(_, _)
ExpandWithNeighbors(primary, expanded) ==
    IF primary = <<>> THEN expanded
    ELSE LET h == Head(primary)
             withHit == AppendUnseen(expanded, <<h>>)
             withNbrs == IF ASK_INCLUDE_NEIGHBOR_CHUNKS
                         THEN AppendUnseen(withHit, _neighbor_hits(h, ASK_NEIGHBOR_WINDOW))
                         ELSE withHit
         IN  ExpandWithNeighbors(Tail(primary), withNbrs)

RECURSIVE SumLen(_)
SumLen(hs) == IF hs = <<>> THEN 0 ELSE Head(hs).text.len + SumLen(Tail(hs))

\* The budget loop of select_evidence, with its break / continue, for given
\* values of SETTINGS.ASK_MAX_CONTEXT_CHUNKS and SETTINGS.ASK_MAX_CONTEXT_CHARS.
RECURSIVE ApplyBudgetWithin(_, _, _, _)
ApplyBudgetWithin(expanded, budgeted, max_chunks, max_chars) ==
    IF expanded = <<>> THEN budgeted
    ELSE LET h == Head(expanded)
         IN  IF Len(budgeted) >= max_chunks THEN budgeted
             ELSE IF h.text.blank
                  THEN ApplyBudgetWithin(Tail(expanded), budgeted, max_chunks, max_chars)
             ELSE IF SumLen(budgeted) + h.text.len > max_chars /\ budgeted # <<>>
                  THEN budgeted
                  ELSE ApplyBudgetWithin(Tail(expanded), Append(budgeted, h),
                                         max_chunks, max_chars)

\* The budget loop under the default settings.
ApplyBudget(expanded, budgeted) ==
    ApplyBudgetWithin(expanded, budgeted, ASK_MAX_CONTEXT_CHUNKS, ASK_MAX_CONTEXT_CHARS)

\* select_evidence without the sort: chunks in the order they first come in.
select_evidence_unsorted(hits) ==
    LET ordered == AppendUnseen(<<>>, hits)
        primary_hits == Prefix(ordered, ASK_MAX_CONTEXT_CHUNKS)
        expanded == ExpandWithNeighbors(primary_hits, <<>>)
    IN  ApplyBudget(expanded, <<>>)

\* The expanded list of select_evidence: the best hit per chunk in stable
\* order, cut to max_chunks, each followed by its unseen neighbours.
ExpandedHits(hits, max_chunks) ==
    ExpandWithNeighbors(Prefix(SortedByStableKey(BestByChunk(hits, {})), max_chunks), <<>>)

\* select_evidence with a budget loop that admits one chunk too many.
select_evidence_within_one_more(hits, max_chunks, max_chars) ==
    ApplyBudgetWithin(ExpandedHits(hits, max_chunks), <<>>, max_chunks + 1, max_chars)

\* select_evidence under given settings.
select_evidence_within(hits, max_chunks, max_chars) ==
    ApplyBudgetWithin(ExpandedHits(hits, max_chunks), <<>>, max_chunks, max_chars)

select_evidence(hits) ==
    LET ordered == SortedByStableKey(BestByChunk(hits, {}))
        primary_hits == Prefix(ordered, ASK_MAX_CONTEXT_CHUNKS)
        expanded == ExpandWithNeighbors(primary_hits, <<>>)
    IN  ApplyBudget(expanded, <<>>)

\* ------------------------------------------------------------------------
\* rag/rag_answer.py, rag/types.py : citation keys and validation
\* ------------------------------------------------------------------------
Citation(key, h) ==
    [key |-> key, doc_id |-> h.doc_id, start_page |-> h.start_page,
     end_page |-> h.end_page, chunk_id |-> h.chunk_id]

\* key_to_cit as the sequence whose i-th element is the citation of key c<i>.
build_context_and_citations(evidence) ==
    [i \in 1..Len(evidence) |-> Citation(i, evidence[i])]

\* _extract_inline_citation_keys on a whole text / on one sentence.
_extract_inline_citation_keys(t) == UNION Range(t.sents) \cup t.span

AnswerResult(answer, citations) == [answer |-> answer, citations |-> citations]

RefusalResult == AnswerResult(Lit(REFUSAL_TEXT), <<>>)

is_refusal(result) == Lower(Strip(result.answer.body)) = REFUSAL_TEXT

\* validate_answer: TRUE when no ValueError is raised.
validate_answer(result, require_citations, require_inline_markers) ==
    /\ \A i \in DOMAIN result.citations :
          /\ result.citations[i].start_page > 0
          /\ result.citations[i].end_page > 0
          /\ result.citations[i].start_page <= result.citations[i].end_page
    /\ IF is_refusal(result) THEN Len(result.citations) = 0
       ELSE /\ (require_citations => Len(result.citations) # 0)
            /\ require_inline_markers =>
                 LET used == _extract_inline_citation_keys(result.answer)
                     known == {result.citations[i].key : i \in DOMAIN result.citations}
                 IN  used # {} /\ used \subseteq known

\* An AnswerResult, or the marker of a raised exception.
RAISED == [answer |-> Lit("<raised>"), citations |-> <<>>]

Validated(result) ==
    IF validate_answer(result, ASK_REQUIRE_CITATIONS, TRUE) THEN result ELSE RAISED

\* enforce_inline_citations without the per-sentence check of lines 263-266.
enforce_inline_citations_no_sentence_check(answer_text, key_to_cit) ==
    LET ans == StripText(answer_text)
        used == _extract_inline_citation_keys(ans)
        unknown == used \ DOMAIN key_to_cit
    IN  IF Lower(ans.body) \in {"not found", "not found in documents", Lower(REFUSAL_TEXT)}
        THEN Validated(RefusalResult)
        ELSE IF used = {} THEN Validated(RefusalResult)
        ELSE IF unknown # {} THEN Validated(RefusalResult)
        ELSE LET keys == SetToSortedSeq(used)
             IN  Validated(AnswerResult(ans, [i \in DOMAIN keys |-> key_to_cit[keys[i]]]))

enforce_inline_citations(answer_text, key_to_cit) ==
    LET ans == StripText(answer_text)
        used == _extract_inline_citation_keys(ans)
        unknown == used \ DOMAIN key_to_cit
    IN  IF Lower(ans.body) \in {"not found", "not found in documents", Lower(REFUSAL_TEXT)}
        THEN Validated(RefusalResult)
        ELSE IF used = {} THEN Validated(RefusalResult)
        ELSE IF unknown # {} THEN Validated(RefusalResult)
        ELSE IF \E i \in DOMAIN ans.sents : ans.sents[i] = {}
             THEN Validated(RefusalResult)
        ELSE LET keys == SetToSortedSeq(used)
             IN  Validated(AnswerResult(ans, [i \in DOMAIN keys |-> key_to_cit[keys[i]]]))

\* ------------------------------------------------------------------------
\* rag/rag_answer.py : deterministic fallbacks
\* ------------------------------------------------------------------------
NONE == [body |-> "<none>", sents |-> <<>>, span |-> {}]

\* One bullet "- <k>: <body> [c<key>]." as the sentences _sentences makes of
\* it: a body holding a sentence boundary gives an uncited sentence first.
StepBullet(kind, key) == IF kind = "split" THEN <<{}, {key}>> ELSE <<{key}>>

_extract_algorithm_steps(text) == text.steps

_algorithm_fallback_answer(question, evidence, key_to_cit) ==
    IF ~question.alg THEN NONE
    ELSE LET matching == {i \in DOMAIN key_to_cit :
                             i \in DOMAIN evidence /\ evidence[i].text.algblock}
         IN  IF matching = {} THEN NONE
             ELSE LET chosen_key == CHOOSE i \in matching : \A j \in matching : i <= j
                      steps == Prefix(_extract_algorithm_steps(evidence[chosen_key].text),
                                      MAX_FALLBACK_STEPS)
                  IN  IF steps = <<>> THEN NONE
                      ELSE Prose(FlattenSeq([k \in DOMAIN steps |->
                                                StepBullet(steps[k], chosen_key)]), {})

_topic_in_text(topic, text) == ~text.blank /\ topic \in text.topics

_infer_role_from_text(text) == text.role

\* Index in `ordered` of the hit _pick_topic_hit returns, 0 for None.
_pick_topic_hit(topic, ordered) ==
    LET withTopic == {i \in DOMAIN ordered : _topic_in_text(topic, ordered[i].text)}
        withRole == {i \in withTopic : _infer_role_from_text(ordered[i].text) # ""}
    IN  IF withTopic = {} THEN 0
        ELSE IF withRole # {}
             THEN CHOOSE i \in withRole : \A j \in withRole : i <= j
             ELSE CHOOSE i \in withTopic : \A j \in withTopic : i <= j

\* One bullet "- <topic>: <first sentence> [c<key>]."
SentenceBullet(fs, key) == IF fs = "qmark" THEN <<{}, {key}>> ELSE <<{key}>>

NoFallback == [text |-> NONE, key_to_cit |-> <<>>]

_comparison_fallback_answer(question, hits) ==
    IF ~question.compare THEN NoFallback
    ELSE LET ordered == SortedByStableKey(BestByChunk(hits, {}))
             ia == _pick_topic_hit("a", ordered)
             ib == _pick_topic_hit("b", ordered)
         IN  IF ia = 0 \/ ib = 0 THEN NoFallback
             ELSE LET hit_a == ordered[ia]
                      hit_b == ordered[ib]
                      evidence == IF hit_b.chunk_id # hit_a.chunk_id
                                  THEN <<hit_a, hit_b>> ELSE <<hit_a>>
                      key_to_cit == build_context_and_citations(evidence)
                      key_a == 1
                      key_b == IF Len(evidence) = 1 THEN 1 ELSE 2
                      role_a == _infer_role_from_text(hit_a.text)
                      role_b == _infer_role_from_text(hit_b.text)
                  IN  IF role_a # "" /\ role_b # "" /\ role_a # role_b
                      THEN [text |-> Prose(<<{key_a}, {key_b}, {key_a, key_b}>>, {}),
                            key_to_cit |-> key_to_cit]
                      ELSE IF hit_a.text.fs = "" \/ hit_b.text.fs = "" THEN NoFallback
                      ELSE [text |-> Prose(SentenceBullet(hit_a.text.fs, key_a)
                                           \o SentenceBullet(hit_b.text.fs, key_b)
                                           \o <<{key_a, key_b}>>, {}),
                            key_to_cit |-> key_to_cit]

\* ------------------------------------------------------------------------
\* rag/llm/gemini.py : the generator with its retry loop
\* ------------------------------------------------------------------------
\* A generator call is given by the outcomes of its API attempts: `fails`
\* attempts raise before one returns `text`.
GenOutcome(fails, text) == [fails |-> fails, text |-> text]

GenOutcomes ==
    {GenOutcome(0, t) : t \in GenTexts}
    \cup {GenOutcome(f, Prose(<<{1}, {2}>>, {})) : f \in 1..GEN_ATTEMPTS}

_gen_raises(outcome) == outcome.fails >= GEN_ATTEMPTS

\* ------------------------------------------------------------------------
\* rag/rag_answer.py : build_cited_answer
\* ------------------------------------------------------------------------
\* The returned AnswerResult (RAISED when an exception leaves the function)
\* with, for the properties, how often generate_fn was called, the accepted
\* evidence, and which text was returned.
Outcome(result, gen_calls, evidence, origin) ==
    [result |-> result, gen_calls |-> gen_calls, evidence |-> evidence,
     origin |-> origin]

\* The evidence threshold taken one too low.
TooFewEvidence_off_by_one(evidence) == Len(evidence) < ASK_MIN_EVIDENCE_HITS - 1

\* The early return of build_cited_answer when too little evidence is accepted.
TooFewEvidence(evidence) == Len(evidence) < ASK_MIN_EVIDENCE_HITS

RefuseTooFew(evidence) == Outcome(Validated(RefusalResult), 0, evidence, "too_few")

\* build_cited_answer with the comparison fallback tried first.
GenerateAndValidate_comparison_first(question, hits, evidence, outcome) ==
    IF _gen_raises(outcome) THEN Outcome(RAISED, 1, evidence, "generator_failed")
    ELSE
    LET key_to_cit == build_context_and_citations(evidence)
        result == enforce_inline_citations(outcome.text, key_to_cit)
        fb == _algorithm_fallback_answer(question, evidence, key_to_cit)
        result2 == enforce_inline_citations(fb, key_to_cit)
        fb_cmp == _comparison_fallback_answer(question, hits)
        result3 == enforce_inline_citations(fb_cmp.text, fb_cmp.key_to_cit)
    IN  IF result = RAISED THEN Outcome(RAISED, 1, evidence, "raised")
        ELSE IF result.answer.body = REFUSAL_TEXT /\ fb_cmp.text # NONE
                /\ result3.answer.body # REFUSAL_TEXT
             THEN Outcome(result3, 1, evidence, "comparison_fallback")
        ELSE IF result.answer.body = REFUSAL_TEXT /\ fb # NONE
                /\ result2.answer.body # REFUSAL_TEXT
             THEN Outcome(result2, 1, evidence, "algorithm_fallback")
        ELSE Outcome(result, 1, evidence, "generator")

\* build_cited_answer from the generator call on: generation, validation,
\* then the two fallbacks.
GenerateAndValidate(question, hits, evidence, outcome) ==
    IF _gen_raises(outcome) THEN Outcome(RAISED, 1, evidence, "generator_failed")
    ELSE
    LET key_to_cit == build_context_and_citations(evidence)
        result == enforce_inline_citations(outcome.text, key_to_cit)
        fb == _algorithm_fallback_answer(question, evidence, key_to_cit)
        result2 == enforce_inline_citations(fb, key_to_cit)
        fb_cmp == _comparison_fallback_answer(question, hits)
        result3 == enforce_inline_citations(fb_cmp.text, fb_cmp.key_to_cit)
    IN  IF result = RAISED THEN Outcome(RAISED, 1, evidence, "raised")
        ELSE IF result.answer.body = REFUSAL_TEXT /\ fb # NONE
                /\ result2.answer.body # REFUSAL_TEXT
             THEN Outcome(result2, 1, evidence, "algorithm_fallback")
        ELSE IF result.answer.body = REFUSAL_TEXT /\ fb_cmp.text # NONE
                /\ result3.answer.body # REFUSAL_TEXT
             THEN Outcome(result3, 1, evidence, "comparison_fallback")
        ELSE Outcome(result, 1, evidence, "generator")

\* build_cited_answer once `evidence` = select_evidence(hits) is computed.
AnswerFromEvidence(question, hits, evidence, outcome) ==
    IF TooFewEvidence(evidence) THEN RefuseTooFew(evidence)
    ELSE GenerateAndValidate(question, hits, evidence, outcome)

build_cited_answer(question, hits, outcome) ==
    AnswerFromEvidence(question, hits, select_evidence(hits), outcome)

\* ------------------------------------------------------------------------
\* State
\* ------------------------------------------------------------------------
VARIABLES
    \* AgentState of one run_agent call (rag/lc/state.py) and the node the
    \* graph executes next
    pc, question, plan, evidence, citations, draft_answer, final_answer,
    tool_calls, steps, retrieval_round, evidence_sufficient, stop_reason,
    refusal_reason,
    \* node_retrieve's tool output (the evidence list of tool_out) while the
    \* node that merged it is the last one that ran; empty otherwise
    tool_out,
    \* module-level budgets of rag/lc/graph.py (read from the settings)
    MAX_STEPS, MAX_TOOL_CALLS, MAX_RETRIEVAL_ROUNDS, MIN_EVIDENCE_HITS,
    \* number of generate_fn calls made during the run, whether one of them
    \* failed on every retry attempt, and number of _call_rag_answer calls
    gen_calls, gen_failed, rag_answer_calls,
    \* one direct call of build_cited_answer: its arguments and its outcome
    ba_pc, ba_question, ba_hits, ba_outcome,
    \* raw_answer of that call: what generate_fn returned (NONE before it has)
    ba_raw_answer,
    \* one direct call of a retrieval or ingestion function: the function with
    \* its arguments, and what the call gave back
    fn_call, fn_ret,
    \* concurrent run_agent invocations: per thread its position and its own
    \* AgentState; the module-level _CHUNKS_META_CACHE of rag/lc/tools.py; the
    \* lru_cache of rag_answer._load_chunk_store_maps; whether the files under
    \* data/processed exist
    thread, CHUNKS_META_CACHE, chunk_store_maps_cache, data_files_exist

agentVars == <<pc, question, plan, evidence, citations, draft_answer, final_answer,
               tool_calls, steps, retrieval_round, evidence_sufficient, stop_reason,
               refusal_reason, MAX_STEPS, MAX_TOOL_CALLS, MAX_RETRIEVAL_ROUNDS,
               MIN_EVIDENCE_HITS, gen_calls, gen_failed, rag_answer_calls, tool_out>>

budgetVars == <<MAX_STEPS, MAX_TOOL_CALLS, MAX_RETRIEVAL_ROUNDS, MIN_EVIDENCE_HITS>>

answerVars == <<ba_pc, ba_question, ba_hits, ba_outcome, ba_raw_answer>>

sharedVars == <<thread, CHUNKS_META_CACHE, chunk_store_maps_cache, data_files_exist>>

callVars == <<fn_call, fn_ret, sharedVars>>

vars == <<agentVars, answerVars, callVars>>

NoOutcome == Outcome(RAISED, 0, <<>>, "not_called")


\* ------------------------------------------------------------------------
\* Direct calls of build_cited_answer
\* ------------------------------------------------------------------------
\* No concurrent invocations: no thread, nothing loaded.
ThreadsIdle ==
    /\ thread = <<>>
    /\ CHUNKS_META_CACHE = NoneValue
    /\ chunk_store_maps_cache = NoneValue
    /\ data_files_exist = TRUE

CallIdle ==
    /\ fn_call = [fn |-> "idle"]
    /\ fn_ret = [state |-> "idle", value |-> <<>>]
    /\ ThreadsIdle

AnswerIdle ==
    /\ ba_pc = "idle"
    /\ ba_question \in Questions
    /\ ba_hits = <<>>
    /\ ba_outcome = NoOutcome
    /\ ba_raw_answer = NONE

AgentIdle ==
    /\ pc = "idle"
    /\ question \in Questions \cup {CompareAlgorithmsQuestion}
    /\ plan = [action |-> "", query |-> "", mode_hint |-> ""]
    /\ evidence = <<>>
    /\ citations = <<>>
    /\ draft_answer = Lit("")
    /\ final_answer = Lit("")
    /\ tool_calls = 0
    /\ steps = 0
    /\ retrieval_round = 0
    /\ evidence_sufficient = FALSE
    /\ stop_reason = ""
    /\ refusal_reason = ""
    /\ tool_out = <<>>
    /\ MAX_STEPS = 8
    /\ MAX_TOOL_CALLS = 3
    /\ MAX_RETRIEVAL_ROUNDS = 2
    /\ MIN_EVIDENCE_HITS = 2
    /\ gen_calls = 0
    /\ gen_failed = FALSE
    /\ rag_answer_calls = 0

InitAnswer ==
    /\ ba_pc = "call"
    /\ ba_question \in {q \in Questions : ~q.definition} \cup {CompareAlgorithmsQuestion}
    /\ ba_hits \in SeqsUpTo(AllHits, MaxHits)
    /\ ba_outcome = NoOutcome
    /\ ba_raw_answer = NONE
    /\ AgentIdle
    /\ question = ba_question
    /\ CallIdle

\* build_cited_answer, first statement: evidence = select_evidence(hits).
SelectEvidence ==
    /\ ba_pc = "call"
    /\ ba_outcome' = Outcome(RAISED, 0, select_evidence(ba_hits), "selected")
    /\ ba_pc' = "selected"
    /\ UNCHANGED <<ba_question, ba_hits, ba_raw_answer, agentVars, callVars>>

\* build_cited_answer, the early return on too little evidence.
ReturnTooFew ==
    /\ ba_pc = "selected"
    /\ TooFewEvidence(ba_outcome.evidence)
    /\ ba_outcome' = RefuseTooFew(ba_outcome.evidence)
    /\ ba_pc' = "returned"
    /\ UNCHANGED <<ba_question, ba_hits, ba_raw_answer, agentVars, callVars>>

\* build_cited_answer, the rest: prompt, generate_fn, validation, fallbacks.
GenerateAnswer ==
    /\ ba_pc = "selected"
    /\ ~TooFewEvidence(ba_outcome.evidence)
    /\ \E outcome \in GenOutcomes :
          /\ ba_outcome' = GenerateAndValidate(ba_question, ba_hits,
                                               ba_outcome.evidence, outcome)
          /\ ba_raw_answer' = IF _gen_raises(outcome) THEN NONE ELSE outcome.text
    /\ ba_pc' = IF ba_outcome'.result = RAISED THEN "raised" ELSE "returned"
    /\ UNCHANGED <<ba_question, ba_hits, agentVars, callVars>>

NextAnswer == SelectEvidence \/ ReturnTooFew \/ GenerateAnswer

SpecAnswer == InitAnswer /\ [][NextAnswer]_vars

\* ------------------------------------------------------------------------
\* rag/lc/graph.py : helpers
\* ------------------------------------------------------------------------
\* The step limit compared with > in place of >=.
_step_limit_hit_strict(n_steps, max_steps) == n_steps > max_steps

_step_limit_hit(n_steps, max_steps) == n_steps >= max_steps

\* The tool limit compared with > in place of >=.
_tool_limit_hit_strict(n_tool_calls, max_tool_calls) == n_tool_calls > max_tool_calls

_tool_limit_hit(n_tool_calls, max_tool_calls) == n_tool_calls >= max_tool_calls

_round_limit_hit(n_rounds, max_rounds) == n_rounds >= max_rounds

\* _budget_limit_reason on the counters of a state; "" stands for None.
_budget_limit_reason(n_steps, n_tool_calls, n_rounds, max_steps, max_tool_calls, max_rounds) ==
    IF _step_limit_hit(n_steps, max_steps) THEN "step_budget_exhausted"
    ELSE IF _tool_limit_hit(n_tool_calls, max_tool_calls) THEN "tool_budget_exhausted"
    ELSE IF _round_limit_hit(n_rounds, max_rounds) THEN "retrieval_round_budget_exhausted"
    ELSE ""

Plan(action, query, mode_hint) ==
    [action |-> action, query |-> query, mode_hint |-> mode_hint]

\* Queries are named by how they were built: "question" is the user's
\* question, a refined query carries the name of the refinement strategy.
_heuristic_route(q) ==
    IF q.compare THEN Plan("compare", "", "general")
    ELSE IF q.alg THEN Plan("retrieve", "question", "algorithm")
    ELSE IF q.definition THEN Plan("resolve_definition", "", "definition")
    ELSE Plan("retrieve", "question", "general")

\* A merge that walks incoming + existing.
_merge_evidence_incoming_first(existing, incoming) == AppendUnseen(<<>>, incoming \o existing)

\* _merge_evidence: first occurrence of each chunk_id in existing + incoming.
_merge_evidence(existing, incoming) == AppendUnseen(<<>>, existing \o incoming)

_evidence_contains_any_anchor(ev, has_anchors) ==
    IF ~has_anchors THEN TRUE
    ELSE \E i \in DOMAIN ev : ~ev[i].text.blank /\ ev[i].text.anchor

_doc_diversity(ev) == Cardinality({ev[i].doc_id : i \in DOMAIN ev})

\* The strategy _build_refined_query picks.
_build_refined_query(q, the_plan, reason) ==
    IF reason = "anchor_missing" /\ q.anchors THEN "anchor_token_bias"
    ELSE IF reason = "compare_doc_diversity_missing" /\ q.compare THEN "compare_doc_bias"
    ELSE IF reason = "insufficient_hits"
         THEN IF the_plan.action = "resolve_definition" THEN "definition_bias"
              ELSE "coverage_bias"
    ELSE "no_change"

MSG_ANCHOR == "I could not find citable evidence for the specific algorithm/table/section anchor in the indexed NIST documents."
MSG_COMPARE == "I could not find enough citable evidence across both topics to produce a reliable comparison from the indexed NIST documents."
MSG_CITATIONS == "I could not produce reliable citations for the drafted answer, so I cannot return it."
MSG_DRAFT == "I could not produce a citable grounded answer from the indexed NIST documents."
MSG_GENERIC == "I do not have enough citable evidence in the indexed NIST documents to answer that reliably."

\* A refusal message that is the citation enforcer's refusal text.
_refusal_message_canonical(rr) == REFUSAL_TEXT

_refusal_message(rr) ==
    IF rr = "anchor_missing" THEN MSG_ANCHOR
    ELSE IF rr = "compare_doc_diversity_missing" THEN MSG_COMPARE
    ELSE IF rr = "missing_citations" THEN MSG_CITATIONS
    ELSE IF rr = "empty_draft_answer" THEN MSG_DRAFT
    ELSE MSG_GENERIC

\* _derive_refusal_reason with the evidence test ahead of the draft test.
_derive_refusal_reason_evidence_first(reason, sufficient, draft, ev, cits) ==
    IF ~sufficient THEN (IF reason # "" THEN reason ELSE "insufficient_evidence")
    ELSE IF ev = <<>> THEN "empty_evidence"
    ELSE IF draft.body = "" THEN "empty_draft_answer"
    ELSE IF Len(cits) = 0 THEN "missing_citations"
    ELSE ""

_derive_refusal_reason(reason, sufficient, draft, ev, cits) ==
    IF ~sufficient THEN (IF reason # "" THEN reason ELSE "insufficient_evidence")
    ELSE IF draft.body = "" THEN "empty_draft_answer"
    ELSE IF ev = <<>> THEN "empty_evidence"
    ELSE IF Len(cits) = 0 THEN "missing_citations"
    ELSE ""

\* Conditional edges of build_graph.
_route_edge(the_plan) ==
    IF the_plan.action \in {"retrieve", "resolve_definition", "compare", "summarize"}
    THEN "retrieve"
    ELSE IF the_plan.action = "answer" THEN "answer"
    ELSE "verify_or_refuse"

_assess_edge(sufficient, budget_reason) ==
    IF sufficient THEN "answer"
    ELSE IF budget_reason # "" THEN "verify_or_refuse"
    ELSE "refine_query"

_refine_edge(budget_reason) ==
    IF budget_reason # "" THEN "verify_or_refuse" ELSE "retrieve"

\* run_agent: recursion_limit = max(20, MAX_STEPS * 4).
RecursionLimit(max_steps) == IF max_steps * 4 > 20 THEN max_steps * 4 ELSE 20

\* ------------------------------------------------------------------------
\* rag/lc/graph.py : run_agent, one action per graph node (the node function
\* followed by the conditional edge that picks the next node)
\* ------------------------------------------------------------------------
Init ==
    /\ pc = "route"
    /\ question \in Questions
    /\ plan = Plan("", "", "")
    /\ evidence = <<>>
    /\ citations = <<>>
    /\ draft_answer = Lit("")
    /\ final_answer = Lit("")
    /\ tool_calls = 0
    /\ steps = 0
    /\ retrieval_round = 0
    /\ evidence_sufficient = FALSE
    /\ stop_reason = ""
    /\ refusal_reason = ""
    /\ tool_out = <<>>
    /\ MAX_STEPS \in 1..MaxStepsBound
    /\ MAX_TOOL_CALLS \in 1..MaxToolBound
    /\ MAX_RETRIEVAL_ROUNDS \in 1..MaxRoundBound
    /\ MIN_EVIDENCE_HITS \in 0..MaxMinHits
    /\ gen_calls = 0
    /\ gen_failed = FALSE
    /\ rag_answer_calls = 0
    /\ AnswerIdle
    /\ ba_question = question
    /\ CallIdle

\* The graph runs the next node unless the recursion limit is used up.
Runs(node) == pc = node /\ steps < RecursionLimit(MAX_STEPS)

\* _budget_limit_reason(state) once the running node has bumped the step
\* counter (the nodes that use it leave the other two counters alone).
BudgetReason ==
    _budget_limit_reason(steps + 1, tool_calls, retrieval_round,
                         MAX_STEPS, MAX_TOOL_CALLS, MAX_RETRIEVAL_ROUNDS)

node_route ==
    /\ Runs("route")
    /\ steps' = steps + 1
    /\ IF _step_limit_hit(steps', MAX_STEPS)
       THEN /\ stop_reason' = "step_budget_exhausted"
            /\ plan' = Plan("refuse", "", "")
       ELSE /\ plan' = _heuristic_route(question)
            /\ UNCHANGED stop_reason
    /\ pc' = _route_edge(plan')
    /\ tool_out' = <<>>
    /\ UNCHANGED <<question, evidence, citations, draft_answer, final_answer,
                   tool_calls, retrieval_round, evidence_sufficient,
                   refusal_reason, gen_calls, gen_failed, rag_answer_calls, budgetVars, answerVars, callVars>>

node_retrieve ==
    /\ Runs("retrieve")
    /\ steps' = steps + 1
    /\ IF _step_limit_hit(steps', MAX_STEPS)
       THEN /\ stop_reason' = "step_budget_exhausted"
            /\ tool_out' = <<>>
            /\ UNCHANGED <<tool_calls, retrieval_round, evidence>>
       ELSE IF _tool_limit_hit(tool_calls, MAX_TOOL_CALLS)
       THEN /\ stop_reason' = "tool_budget_exhausted"
            /\ tool_out' = <<>>
            /\ UNCHANGED <<tool_calls, retrieval_round, evidence>>
       ELSE IF _round_limit_hit(retrieval_round, MAX_RETRIEVAL_ROUNDS)
       THEN /\ stop_reason' = "retrieval_round_budget_exhausted"
            /\ tool_out' = <<>>
            /\ UNCHANGED <<tool_calls, retrieval_round, evidence>>
       ELSE /\ tool_calls' = tool_calls + 1
            /\ retrieval_round' = retrieval_round + 1
            /\ IF plan.action \in {"retrieve", "resolve_definition", "compare", "summarize"}
               THEN /\ \E incoming \in SeqsUpTo(AllHits, MaxIncoming) :
                          /\ tool_out' = incoming
                          /\ evidence' = _merge_evidence(evidence, incoming)
                    /\ UNCHANGED stop_reason
               ELSE /\ stop_reason' = "unsupported_action"
                    /\ tool_out' = <<>>
                    /\ UNCHANGED evidence
    /\ pc' = "assess_evidence"
    /\ UNCHANGED <<question, plan, citations, draft_answer, final_answer,
                   evidence_sufficient, refusal_reason, gen_calls, gen_failed, rag_answer_calls, budgetVars,
                   answerVars, callVars>>

\* The rules with the anchor rule reported ahead of the hit-count rule.
AssessReasons_anchor_first(q, ev, min_hits) ==
    (IF q.anchors /\ ~_evidence_contains_any_anchor(ev, q.anchors)
        THEN <<"anchor_missing">> ELSE <<>>)
    \o (IF Len(ev) < min_hits THEN <<"insufficient_hits">> ELSE <<>>)
    \o (IF q.compare /\ _doc_diversity(ev) < 2
        THEN <<"compare_doc_diversity_missing">> ELSE <<>>)

\* The reasons list of node_assess_evidence, in the order it is built.
AssessReasons(q, ev, min_hits) ==
    (IF Len(ev) < min_hits THEN <<"insufficient_hits">> ELSE <<>>)
    \o (IF q.anchors /\ ~_evidence_contains_any_anchor(ev, q.anchors)
        THEN <<"anchor_missing">> ELSE <<>>)
    \o (IF q.compare /\ _doc_diversity(ev) < 2
        THEN <<"compare_doc_diversity_missing">> ELSE <<>>)

\* A stop_reason that names an exhausted budget even for sufficient evidence.
AssessStopReason_budget_first(sufficient, budget_reason, reasons) ==
    IF budget_reason # "" THEN budget_reason
    ELSE IF ~sufficient THEN reasons[1]
    ELSE "sufficient_evidence"

\* A stop_reason that names the failing rule even with a budget exhausted.
AssessStopReason_rule_first(sufficient, budget_reason, reasons) ==
    IF ~sufficient THEN reasons[1] ELSE "sufficient_evidence"

\* The stop_reason node_assess_evidence records.
AssessStopReason(sufficient, budget_reason, reasons) ==
    IF ~sufficient
    THEN (IF budget_reason # "" THEN budget_reason ELSE reasons[1])
    ELSE "sufficient_evidence"

node_assess_evidence ==
    /\ Runs("assess_evidence")
    /\ steps' = steps + 1
    /\ LET reasons == AssessReasons(question, evidence, MIN_EVIDENCE_HITS)
           sufficient == Len(reasons) = 0
       IN  /\ evidence_sufficient' = sufficient
           /\ stop_reason' = AssessStopReason(sufficient, BudgetReason, reasons)
           /\ pc' = _assess_edge(sufficient, BudgetReason)
    /\ tool_out' = <<>>
    /\ UNCHANGED <<question, plan, evidence, citations, draft_answer, final_answer,
                   tool_calls, retrieval_round, refusal_reason, gen_calls,
                   gen_failed, rag_answer_calls, budgetVars, answerVars, callVars>>

node_refine_query ==
    /\ Runs("refine_query")
    /\ steps' = steps + 1
    /\ IF _step_limit_hit(steps', MAX_STEPS)
       THEN /\ stop_reason' = "step_budget_exhausted"
            /\ UNCHANGED plan
       ELSE /\ plan' = Plan("retrieve", _build_refined_query(question, plan, stop_reason),
                            IF plan.mode_hint # "" THEN plan.mode_hint ELSE "general")
            /\ UNCHANGED stop_reason
    /\ pc' = _refine_edge(BudgetReason)
    /\ tool_out' = <<>>
    /\ UNCHANGED <<question, evidence, citations, draft_answer, final_answer,
                   tool_calls, retrieval_round, evidence_sufficient,
                   refusal_reason, gen_calls, gen_failed, rag_answer_calls, budgetVars, answerVars, callVars>>

\* _call_rag_answer: make_generate_fn() (raises without client credentials),
\* then build_cited_answer on the evidence; `selected` is select_evidence(ev).
_call_rag_answer(q, ev, selected, client_ok, outcome) ==
    IF ~client_ok THEN Outcome(RAISED, 0, <<>>, "no_client")
    ELSE AnswerFromEvidence(q, ev, selected, outcome)

node_answer ==
    /\ Runs("answer")
    /\ steps' = steps + 1
    /\ IF ~evidence_sufficient \/ evidence = <<>>
       THEN /\ pc' = "verify_or_refuse"
            /\ UNCHANGED <<draft_answer, citations, gen_calls, gen_failed, rag_answer_calls>>
       ELSE \E selected \in {select_evidence(evidence)} :
                \E client_ok \in BOOLEAN :
                \E outcome \in IF client_ok THEN GenOutcomes ELSE {GenOutcome(0, Lit(""))} :
                   LET out == _call_rag_answer(question, evidence, selected, client_ok, outcome)
                   IN  /\ rag_answer_calls' = rag_answer_calls + 1
                       /\ gen_calls' = gen_calls + out.gen_calls
                       /\ gen_failed' = (out.origin = "generator_failed")
                       /\ IF out.result = RAISED
                          THEN /\ pc' = "raised"
                               /\ UNCHANGED <<draft_answer, citations>>
                          ELSE /\ pc' = "verify_or_refuse"
                               /\ draft_answer' = StripText(out.result.answer)
                               /\ citations' = out.result.citations
    /\ tool_out' = <<>>
    /\ UNCHANGED <<question, plan, evidence, final_answer, tool_calls,
                   retrieval_round, evidence_sufficient, stop_reason,
                   refusal_reason, budgetVars, answerVars, callVars>>

\* should_refuse without the test for zero citations.
ShouldRefuse_ignoring_citations(sufficient, draft, ev, cits) ==
    ~sufficient \/ draft.body = "" \/ ev = <<>>

\* should_refuse of node_verify_or_refuse.
ShouldRefuse(sufficient, draft, ev, cits) ==
    ~sufficient \/ draft.body = "" \/ ev = <<>> \/ Len(cits) = 0

node_verify_or_refuse ==
    /\ Runs("verify_or_refuse")
    /\ steps' = steps + 1
    /\ LET draft == StripText(draft_answer)
           should_refuse == ShouldRefuse(evidence_sufficient, draft, evidence, citations)
       IN  IF should_refuse
           THEN /\ refusal_reason' = _derive_refusal_reason(stop_reason, evidence_sufficient,
                                                           draft, evidence, citations)
                /\ citations' = <<>>
                /\ final_answer' = Lit(_refusal_message(refusal_reason'))
           ELSE /\ refusal_reason' = ""
                /\ final_answer' = draft
                /\ UNCHANGED citations
    /\ pc' = "END"
    /\ tool_out' = <<>>
    /\ UNCHANGED <<question, plan, evidence, draft_answer, tool_calls,
                   retrieval_round, evidence_sufficient, stop_reason, gen_calls,
                   gen_failed, rag_answer_calls, budgetVars, answerVars, callVars>>

Next ==
    \/ node_route
    \/ node_retrieve
    \/ node_assess_evidence
    \/ node_refine_query
    \/ node_answer
    \/ node_verify_or_refuse

Spec == Init /\ [][Next]_vars

NodeNames ==
    {"route", "retrieve", "assess_evidence", "refine_query", "answer", "verify_or_refuse"}

\* The graph hands control from the node that is due to the next one. Every
\* node step changes pc, and a node that is due always has a successor, so
\* this is the Next step seen through pc alone.
Advance ==
    /\ pc \in NodeNames
    /\ steps < RecursionLimit(MAX_STEPS)
    /\ pc' \in NodeNames \cup {"END", "raised"}

\* run_agent is one synchronous call: graph.invoke keeps running the node that
\* is due, control never rests at a node that can run.
FairSpec == Spec /\ WF_pc(Advance)

\* ------------------------------------------------------------------------
\* Properties of build_cited_answer (checked under SpecAnswer)
\* ------------------------------------------------------------------------
Returned == ba_pc = "returned"

IsCanonicalRefusal(result) ==
    result.answer = Lit(REFUSAL_TEXT) /\ result.citations = <<>>

CitationKeys(result) == {result.citations[i].key : i \in DOMAIN result.citations}

\* C1: every AnswerResult build_cited_answer returns is either the canonical
\* refusal with no citations, or has at least one citation, cites in its text
\* every key it returns, has a citation marker in every sentence, and uses
\* only markers among the keys c1..cN assigned to the N accepted chunks.
C1_AnswerContract ==
    Returned =>
        LET r == ba_outcome.result
            used == _extract_inline_citation_keys(r.answer)
        IN  \/ IsCanonicalRefusal(r)
            \/ /\ r.answer.body # REFUSAL_TEXT
               /\ Len(r.citations) > 0
               /\ CitationKeys(r) \subseteq used
               /\ \A i \in DOMAIN r.answer.sents : r.answer.sents[i] # {}
               /\ r.answer.sents # <<>>
               /\ used \subseteq 1..Len(ba_outcome.evidence)
               /\ used \subseteq CitationKeys(r)

\* A generator answer of two cited sentences was returned as it is.
C1_Witness ==
    /\ Returned
    /\ ba_outcome.origin = "generator"
    /\ ba_outcome.result.answer = Prose(<<{1}, {2}>>, {})
    /\ Len(ba_outcome.result.citations) = 2

\* C2: when select_evidence accepts fewer than min_evidence_hits chunks, the
\* call returns the canonical refusal with no citations and generate_fn is
\* not called.
C2_TooFewEvidenceRefuses ==
    (ba_pc \in {"returned", "raised"}
        /\ Len(select_evidence(ba_hits)) < ASK_MIN_EVIDENCE_HITS)
    => /\ ba_pc = "returned"
       /\ IsCanonicalRefusal(ba_outcome.result)
       /\ ba_outcome.gen_calls = 0

\* One non-blank chunk was accepted out of several hits, and the call refused.
C2_Witness ==
    /\ Returned
    /\ Len(ba_hits) >= 2
    /\ Len(ba_outcome.evidence) = 1
    /\ IsCanonicalRefusal(ba_outcome.result)
    /\ ba_outcome.gen_calls = 0

\* ------------------------------------------------------------------------
\* Properties of run_agent (checked under Spec, the liveness one under FairSpec)
\* ------------------------------------------------------------------------
Ended == pc = "END"

BudgetReasons ==
    {"step_budget_exhausted", "tool_budget_exhausted", "retrieval_round_budget_exhausted"}

RefusalMessages == {MSG_ANCHOR, MSG_COMPARE, MSG_CITATIONS, MSG_DRAFT, MSG_GENERIC}

\* C3: _call_rag_answer (and with it the generator) is invoked only when the
\* most recent assess_evidence found the evidence sufficient, and its call
\* is made by the answer node; a run whose evidence is insufficient or whose
\* stop reason is an exhausted budget has made no such call.
C3_GeneratorOnlyWhenSufficient ==
    /\ (rag_answer_calls > 0 \/ gen_calls > 0) =>
          /\ evidence_sufficient
          /\ stop_reason = "sufficient_evidence"
          /\ AssessReasons(question, evidence, MIN_EVIDENCE_HITS) = <<>>
          /\ pc \in {"verify_or_refuse", "END", "raised"}
    /\ (~evidence_sufficient \/ stop_reason \in BudgetReasons) =>
          (rag_answer_calls = 0 /\ gen_calls = 0)

\* The generator was called after a refinement round, and the run ended.
C3_Witness ==
    /\ Ended
    /\ rag_answer_calls > 0
    /\ gen_calls = 1
    /\ retrieval_round = 2
    /\ refusal_reason = ""

\* C4: for all positive budgets and all retrieval results no node is ever
\* due with the recursion limit max(20, 4 * max_steps) used up, and every
\* run reaches END (through verify_or_refuse).
C4_Terminates ==
    /\ [](pc \in NodeNames => steps < RecursionLimit(MAX_STEPS))
    /\ <>Ended

\* C5: the steps counter never exceeds max_steps.
C5_StepsWithinBudget == steps <= MAX_STEPS

\* C6: tool_calls and retrieval_round never exceed their budgets, and a
\* retrieval tool is invoked only while the tool, round and step budgets are
\* not exhausted.
C6_RetrievalWithinBudgets ==
    /\ [](tool_calls <= MAX_TOOL_CALLS /\ retrieval_round <= MAX_RETRIEVAL_ROUNDS)
    /\ [][tool_calls' # tool_calls \/ retrieval_round' # retrieval_round =>
            /\ tool_calls' = tool_calls + 1
            /\ retrieval_round' = retrieval_round + 1
            /\ tool_calls < MAX_TOOL_CALLS
            /\ retrieval_round < MAX_RETRIEVAL_ROUNDS
            /\ steps' < MAX_STEPS]_vars

\* The tool budget ran out before the round budget and the run refused.
C6_Witness ==
    /\ Ended
    /\ tool_calls = MAX_TOOL_CALLS
    /\ retrieval_round < MAX_RETRIEVAL_ROUNDS
    /\ stop_reason = "tool_budget_exhausted"

\* C7 as stated: a refusing run ends with the fixed string of REFUSAL_TEXT as
\* its final answer and with no citations.
C7_RefusalIsCanonicalString ==
    (Ended /\ refusal_reason # "") =>
        (final_answer = Lit(REFUSAL_TEXT) /\ citations = <<>>)

\* The message graph.py documents for each refusal reason.
MessageFor(rr) ==
    CASE rr = "anchor_missing" -> MSG_ANCHOR
      [] rr = "compare_doc_diversity_missing" -> MSG_COMPARE
      [] rr = "missing_citations" -> MSG_CITATIONS
      [] rr = "empty_draft_answer" -> MSG_DRAFT
      [] OTHER -> MSG_GENERIC

\* C7 amended: a refusing run ends with the fixed refusal message that
\* belongs to its refusal_reason (never the REFUSAL_TEXT string) and with no
\* citations.
C7_RefusalIsReasonMessage ==
    (Ended /\ refusal_reason # "") =>
        /\ final_answer = Lit(MessageFor(refusal_reason))
        /\ final_answer.body \in RefusalMessages
        /\ final_answer.body # REFUSAL_TEXT
        /\ citations = <<>>

\* max_tool_calls = 1, min_evidence_hits = 2, one chunk retrieved: refused.
C7_Witness ==
    /\ Ended
    /\ MAX_TOOL_CALLS = 1
    /\ MIN_EVIDENCE_HITS = 2
    /\ Len(evidence) = 1
    /\ tool_calls = 1
    /\ refusal_reason = "tool_budget_exhausted"
    /\ final_answer = Lit(MSG_GENERIC)

\* C8: verify_or_refuse finalises the draft exactly when the evidence was
\* assessed sufficient and draft, evidence and citations are all non-empty,
\* and then refusal_reason is empty; otherwise the run ends as a refusal with
\* citations cleared and a non-empty refusal_reason. No run ends with a
\* non-refusal final answer that has no citations.
C8_FinalAnswerGate ==
    /\ [][pc = "verify_or_refuse" /\ pc' = "END" =>
            LET keep == /\ evidence_sufficient
                        /\ Strip(draft_answer.body) # ""
                        /\ evidence # <<>>
                        /\ Len(citations) > 0
            IN  IF keep
                THEN /\ final_answer' = draft_answer
                     /\ refusal_reason' = ""
                     /\ citations' = citations
                ELSE /\ final_answer'.body \in RefusalMessages
                     /\ final_answer' # draft_answer
                     /\ refusal_reason' # ""
                     /\ citations' = <<>>]_vars
    /\ [](Ended /\ final_answer.body \notin RefusalMessages => Len(citations) > 0)

\* A run ended with a finalised, cited draft.
C8_Witness ==
    /\ Ended
    /\ refusal_reason = ""
    /\ final_answer = draft_answer
    /\ Len(citations) > 0

\* C9: a refusing verify_or_refuse sets refusal_reason to the stop_reason
\* when that is not sufficient_evidence, else to empty_draft_answer for an
\* empty draft, else to empty_evidence for no evidence, else to
\* missing_citations; it leaves stop_reason unchanged.
C9_RefusalReasonPriority ==
    [][pc = "verify_or_refuse" /\ pc' = "END" =>
          /\ stop_reason' = stop_reason
          /\ refusal_reason' # "" =>
                refusal_reason' =
                    IF stop_reason # "sufficient_evidence" THEN stop_reason
                    ELSE IF Strip(draft_answer.body) = "" THEN "empty_draft_answer"
                    ELSE IF evidence = <<>> THEN "empty_evidence"
                    ELSE "missing_citations"]_vars

\* Sufficient evidence, a draft without citations: refused as missing_citations.
C9_Witness ==
    /\ Ended
    /\ stop_reason = "sufficient_evidence"
    /\ refusal_reason = "missing_citations"
    /\ draft_answer = Lit(REFUSAL_TEXT)

\* C10: a generator that fails on every retry attempt does not make the run
\* fail: the run still ends as a refusal with reason empty_draft_answer and
\* no citations.
C10_GeneratorFailureContained ==
    gen_failed =>
        /\ pc # "raised"
        /\ Ended => (refusal_reason = "empty_draft_answer" /\ citations = <<>>)

\* ------------------------------------------------------------------------
\* The transition relation of build_graph (checked under Spec)
\* ------------------------------------------------------------------------
\* _budget_limit_reason on the counters a node leaves behind.
BudgetExhaustedAfter ==
    _budget_limit_reason(steps', tool_calls', retrieval_round',
                         MAX_STEPS, MAX_TOOL_CALLS, MAX_RETRIEVAL_ROUNDS) # ""

\* The edges the graph specification gives each node.
SpecifiedEdge ==
    /\ pc' # "route"
    /\ pc = "retrieve" => pc' = "assess_evidence"
    /\ pc = "assess_evidence" =>
          pc' = IF evidence_sufficient' THEN "answer"
                ELSE IF BudgetExhaustedAfter THEN "verify_or_refuse"
                ELSE "refine_query"
    /\ pc = "refine_query" =>
          pc' = IF BudgetExhaustedAfter THEN "verify_or_refuse" ELSE "retrieve"
    /\ pc = "answer" => pc' = "verify_or_refuse"
    /\ pc = "verify_or_refuse" => pc' = "END"
    /\ pc' = "END" => pc = "verify_or_refuse"
    /\ pc \notin NodeNames => pc' = pc

\* C11: every step of a run follows the specified transition relation: route
\* is never re-entered, retrieve is followed by assess_evidence,
\* assess_evidence goes to answer / verify_or_refuse / refine_query by
\* sufficiency and budget, refine_query goes to retrieve or verify_or_refuse
\* by budget, answer goes to verify_or_refuse, and verify_or_refuse runs once,
\* last, and is the only node that leads to END.
C11_TransitionRelation == [][SpecifiedEdge]_vars

\* The same relation on the steps in which no exception leaves node_answer.
C11_RelationUnlessRaised == [][pc' # "raised" => SpecifiedEdge]_vars

\* ------------------------------------------------------------------------
\* Python floats. A float is the integer number of units of 2^-FracBits it
\* holds; every result is rounded to MantissaBits significant bits, ties to
\* even, as IEEE 754 does with 53 bits.
\* ------------------------------------------------------------------------
MantissaBits == 14

RECURSIVE Pow2(_)
Pow2(n) == IF n = 0 THEN 1 ELSE 2 * Pow2(n - 1)

FracBits == MantissaBits + 6

FloatOne == Pow2(FracBits)

\* Largest power of two that is <= x, for x > 0.
RECURSIVE BinadeFrom(_, _)
BinadeFrom(b, x) == IF 2 * b > x THEN b ELSE BinadeFrom(2 * b, x)

\* Spacing of the floats in the binade that starts at b.
Ulp(b) ==
    IF b >= Pow2(MantissaBits - 1) THEN b \div Pow2(MantissaBits - 1) ELSE 1

\* num/den rounded to the nearest multiple of ulp, ties to the even multiple.
RoundHalfEven(num, den, ulp) ==
    LET q == num \div (den * ulp)
        r == num - q * den * ulp
    IN  IF 2 * r > den * ulp \/ (2 * r = den * ulp /\ q % 2 = 1)
        THEN (q + 1) * ulp
        ELSE q * ulp

\* 1.0 / n
FloatReciprocal(n) ==
    RoundHalfEven(FloatOne, n, Ulp(BinadeFrom(1, FloatOne \div n)))

\* a + b
FloatAdd(a, b) ==
    IF a + b = 0 THEN 0
    ELSE RoundHalfEven(a + b, 1, Ulp(BinadeFrom(1, a + b)))

\* ------------------------------------------------------------------------
\* rag/retrieve.py : rank fusion
\* ------------------------------------------------------------------------
RETRIEVAL_RRF_K0 == 60

\* Sequences over S of length <= n without repeated elements.
RankingsOver(S, n) ==
    {r \in SeqsUpTo(S, n) : \A i, j \in DOMAIN r : i # j => r[i] # r[j]}

\* _tie_break_key(a) < _tie_break_key(b)
_tie_break_less(a, b) ==
    \/ a.doc_id < b.doc_id
    \/ /\ a.doc_id = b.doc_id
       /\ \/ a.start_page < b.start_page
          \/ /\ a.start_page = b.start_page
             /\ a.chunk_id < b.chunk_id

\* The (rank, hit) pairs in the order the two loops of rrf_fuse visit them.
RankedPairs(rankings) ==
    FlattenSeq([i \in DOMAIN rankings |->
                  [r \in DOMAIN rankings[i] |-> [rank |-> r, hit |-> rankings[i][r]]]])

\* The loop body of rrf_fuse: acc holds the dicts rrf_scores and representative.
RECURSIVE RrfAccumulate(_, _, _)
RrfAccumulate(pairs, k0, acc) ==
    IF pairs = <<>> THEN acc
    ELSE LET hit == Head(pairs).hit
             rank == Head(pairs).rank
             chunk_id == hit.chunk_id
             seen == chunk_id \in DOMAIN acc.rrf_scores
             score == FloatAdd(IF seen THEN acc.rrf_scores[chunk_id] ELSE 0,
                               FloatReciprocal(k0 + rank))
             rep == IF ~seen THEN hit
                    ELSE IF _tie_break_less(hit, acc.representative[chunk_id]) THEN hit
                    ELSE acc.representative[chunk_id]
             ids == DOMAIN acc.rrf_scores \cup {chunk_id}
         IN  RrfAccumulate(Tail(pairs), k0,
                [rrf_scores |-> [c \in ids |-> IF c = chunk_id THEN score
                                               ELSE acc.rrf_scores[c]],
                 representative |-> [c \in ids |-> IF c = chunk_id THEN rep
                                                   ELSE acc.representative[c]]])

\* The sort key of rrf_fuse: (-rrf_score, doc_id, start_page, chunk_id), on
\* the fused hits (representative with the accumulated score).
RrfSortBefore(a, b) ==
    \/ a.score > b.score
    \/ a.score = b.score /\ _tie_break_less(a, b)

RECURSIVE SortedByRrfKey(_)
SortedByRrfKey(S) ==
    IF S = {} THEN <<>>
    ELSE LET m == CHOOSE x \in S : \A y \in S \ {x} : RrfSortBefore(x, y)
         IN  <<m>> \o SortedByRrfKey(S \ {m})

\* What a call returns: a list, or the exception that left it.
ReturnValue(value) == [state |-> "returned", value |-> value]

RaiseError(exception) == [state |-> "raised", value |-> exception]

rrf_fuse(rankings, top_k, k0) ==
    IF top_k <= 0 THEN ReturnValue(<<>>)
    ELSE IF k0 <= 0 THEN RaiseError("ValueError: k0 must be > 0")
    ELSE LET acc == RrfAccumulate(RankedPairs(rankings), k0,
                                  [rrf_scores |-> <<>>, representative |-> <<>>])
             fused == {ChunkHit(acc.representative[c], acc.rrf_scores[c]) :
                          c \in DOMAIN acc.rrf_scores}
         IN  ReturnValue(Prefix(SortedByRrfKey(fused), top_k))

\* ------------------------------------------------------------------------
\* The retrieval index: the chunks both backends serve, by chunk_id. A text
\* is the set of lower-case terms it contains.
\* ------------------------------------------------------------------------
INDEX_CHUNKS ==
    << [chunk_id |-> 1, doc_id |-> 1, start_page |-> 2, end_page |-> 2,
        text |-> [terms |-> {"ml-kem.keygen", "ml", "kem", "keygen"}]],
       [chunk_id |-> 2, doc_id |-> 1, start_page |-> 1, end_page |-> 1,
        text |-> [terms |-> {"algorithm", "19"}]],
       [chunk_id |-> 3, doc_id |-> 2, start_page |-> 1, end_page |-> 1,
        text |-> [terms |-> {}]] >>

IndexIds == DOMAIN INDEX_CHUNKS

\* The hits a backend reports for a ranking of chunk ids, best first.
BackendHits(ids) == [r \in DOMAIN ids |-> ChunkHit(INDEX_CHUNKS[ids[r]], 0 - r)]

\* ------------------------------------------------------------------------
\* Queries, as the strings the model uses
\* ------------------------------------------------------------------------
QueryStrings ==
    {"", "   ", "ML-KEM.KeyGen", " Algorithm 19 ", "ML-KEM key generation"}

\* str.strip() on a query.
QueryStrip(q) ==
    CASE q = "   " -> ""
      [] q = " Algorithm 19 " -> "Algorithm 19"
      [] OTHER -> q

\* TECH_TOKEN_RE.findall(q), first occurrences.
TechTokens(q) ==
    CASE q \in {"ML-KEM.KeyGen", "Algorithm 19 ML-KEM.KeyGen",
                "ML-KEM.KeyGen key generation"} -> <<"ML-KEM.KeyGen">>
      [] q \in {"ML-KEM key generation", "ML-KEM"} -> <<"ML-KEM">>
      [] OTHER -> <<>>

\* " ".join(tokens) for the token lists of TechTokens.
JoinTokens(tokens) == IF tokens = <<>> THEN "" ELSE tokens[1]

\* The variants the substring rules on the lowered query append.
PhraseRewrites(q) ==
    IF q \in {"ML-KEM key generation", "ML-KEM.KeyGen key generation"}
    THEN <<"ML-KEM.KeyGen key generation">>
    ELSE <<>>

\* The variants appended for an ALGORITHM_NUM_RE match.
AlgorithmRewrites(q) ==
    IF q \in {"Algorithm 19", "Algorithm 19 ML-KEM.KeyGen"}
    THEN <<"Algorithm 19", "Algorithm 19 ML-KEM.KeyGen">>
    ELSE <<>>

\* Stable de-dup of the non-empty items, order preserved.
RECURSIVE DedupVariants(_, _)
DedupVariants(variants, deduped) ==
    IF variants = <<>> THEN deduped
    ELSE LET key == QueryStrip(Head(variants))
         IN  IF key # "" /\ key \notin Range(deduped)
             THEN DedupVariants(Tail(variants), Append(deduped, key))
             ELSE DedupVariants(Tail(variants), deduped)

query_variants(query) ==
    LET original == QueryStrip(query)
    IN  IF original = "" THEN <<>>
        ELSE DedupVariants(
                <<original>>
                \o (IF TechTokens(original) # <<>>
                    THEN <<JoinTokens(TechTokens(original))>> ELSE <<>>)
                \o PhraseRewrites(original)
                \o AlgorithmRewrites(original),
                <<>>)

\* rag/index_bm25.py tokenize, as the set of tokens.
tokenize(text) ==
    CASE text \in {"", "   "} -> {}
      [] text = "ML-KEM.KeyGen" -> {"ml-kem.keygen", "ml", "kem", "keygen"}
      [] text \in {" Algorithm 19 ", "Algorithm 19"} -> {"algorithm", "19"}
      [] text = "Algorithm 19 ML-KEM.KeyGen" ->
            {"algorithm", "19", "ml-kem.keygen", "ml", "kem", "keygen"}
      [] text = "ML-KEM key generation" -> {"ml-kem", "ml", "kem", "key", "generation"}
      [] text = "ML-KEM" -> {"ml-kem", "ml", "kem"}
      [] text = "ML-KEM.KeyGen key generation" ->
            {"ml-kem.keygen", "ml", "kem", "keygen", "key", "generation"}
      [] OTHER -> {}

\* str.lower() on a technical token.
LowerToken(t) ==
    CASE t = "ML-KEM.KeyGen" -> "ml-kem.keygen"
      [] t = "ML-KEM" -> "ml-kem"
      [] OTHER -> t

_query_technical_tokens(query) == {LowerToken(t) : t \in Range(TechTokens(query))}

\* ------------------------------------------------------------------------
\* The two backends. `results` holds, per position in the list of queries a
\* call issues, the ranking the index has for that query.
\* ------------------------------------------------------------------------
\* FaissRetriever.search: the nearest neighbours of the encoded query.
FaissRetriever_search(results, pos, k) == Prefix(BackendHits(results[pos]), k)

\* BM25Retriever.search: nothing for a query without terms.
BM25Retriever_search(results, q, pos, k) ==
    IF tokenize(q) = {} THEN <<>> ELSE Prefix(BackendHits(results[pos]), k)

\* BM25Retriever.score_text: lexical score of a text for a query.
score_text(query, text) == Cardinality(tokenize(query) \cap text.terms)

\* ------------------------------------------------------------------------
\* rag/retrieve.py : rerank and the search entry points
\* ------------------------------------------------------------------------
has_exact_token(query, hit) ==
    _query_technical_tokens(query) \cap hit.text.terms # {}

\* The rerank sort key:
\* (-int(has_exact_token), -bm25_score, doc_id, start_page, chunk_id).
RerankBefore(query, a, b) ==
    LET ta == IF has_exact_token(query, a) THEN 1 ELSE 0
        tb == IF has_exact_token(query, b) THEN 1 ELSE 0
        sa == score_text(query, a.text)
        sb == score_text(query, b.text)
    IN  \/ ta > tb
        \/ ta = tb /\ sa > sb
        \/ ta = tb /\ sa = sb /\ _tie_break_less(a, b)

RECURSIVE SortedByRerankKey(_, _)
SortedByRerankKey(query, S) ==
    IF S = {} THEN <<>>
    ELSE LET m == CHOOSE x \in S : \A y \in S \ {x} : RerankBefore(query, x, y)
         IN  <<m>> \o SortedByRerankKey(query, S \ {m})

\* A rerank that keeps the fused order.
rerank_fused_hits_unsorted(query, hits, top_k) == Prefix(hits, top_k)

rerank_fused_hits(query, hits, top_k) ==
    Prefix(SortedByRerankKey(query, Range(hits)), top_k)

Max(a, b) == IF a >= b THEN a ELSE b

\* The tail shared by hybrid_search and base_search: fuse, then rerank or cut.
FuseAndRank(query, rankings, top_k, k0, enable_rerank, rerank_pool) ==
    LET fused == rrf_fuse(rankings, Max(top_k, rerank_pool), k0)
    IN  IF fused.state = "raised" THEN fused
        ELSE IF enable_rerank
             THEN ReturnValue(rerank_fused_hits(query, fused.value, top_k))
             ELSE ReturnValue(Prefix(fused.value, top_k))

\* hybrid_search that serves top_k <= 0 in place of rejecting it.
hybrid_search_no_top_k_guard(query, top_k, candidate_multiplier, k0, use_query_fusion, enable_rerank, rerank_pool, faiss, bm25) ==
    IF candidate_multiplier <= 0 THEN RaiseError("ValueError: candidate_multiplier must be > 0")
    ELSE IF rerank_pool <= 0 THEN RaiseError("ValueError: rerank_pool must be > 0")
    ELSE LET per_source_k == Max(top_k * candidate_multiplier, top_k)
             queries == IF use_query_fusion THEN query_variants(query) ELSE <<query>>
             rankings == FlattenSeq([i \in DOMAIN queries |->
                            << FaissRetriever_search(faiss, i, per_source_k),
                               BM25Retriever_search(bm25, queries[i], i, per_source_k) >>])
         IN  FuseAndRank(query, rankings, top_k, k0, enable_rerank, rerank_pool)

hybrid_search(query, top_k, candidate_multiplier, k0, use_query_fusion, enable_rerank, rerank_pool, faiss, bm25) ==
    IF top_k <= 0 THEN RaiseError("ValueError: top_k must be > 0")
    ELSE IF candidate_multiplier <= 0 THEN RaiseError("ValueError: candidate_multiplier must be > 0")
    ELSE IF rerank_pool <= 0 THEN RaiseError("ValueError: rerank_pool must be > 0")
    ELSE LET per_source_k == Max(top_k * candidate_multiplier, top_k)
             queries == IF use_query_fusion THEN query_variants(query) ELSE <<query>>
             rankings == FlattenSeq([i \in DOMAIN queries |->
                            << FaissRetriever_search(faiss, i, per_source_k),
                               BM25Retriever_search(bm25, queries[i], i, per_source_k) >>])
         IN  FuseAndRank(query, rankings, top_k, k0, enable_rerank, rerank_pool)

\* get_retriever(backend).search(q, k)
Retriever_search(backend, faiss, bm25, q, pos, k) ==
    IF backend = "faiss" THEN FaissRetriever_search(faiss, pos, k)
    ELSE BM25Retriever_search(bm25, q, pos, k)

base_search(query, top_k, backend, candidate_multiplier, k0, use_query_fusion, enable_rerank, rerank_pool, faiss, bm25) ==
    IF top_k <= 0 THEN RaiseError("ValueError: top_k must be > 0")
    ELSE IF candidate_multiplier <= 0 THEN RaiseError("ValueError: candidate_multiplier must be > 0")
    ELSE IF rerank_pool <= 0 THEN RaiseError("ValueError: rerank_pool must be > 0")
    ELSE IF backend \notin {"faiss", "bm25"} THEN RaiseError("ValueError: Unknown backend")
    ELSE LET per_query_k == Max(top_k * candidate_multiplier, top_k)
             queries == IF use_query_fusion THEN query_variants(query) ELSE <<query>>
             rankings == [i \in DOMAIN queries |->
                            Retriever_search(backend, faiss, bm25, queries[i], i, per_query_k)]
         IN  FuseAndRank(query, rankings, top_k, k0, enable_rerank, rerank_pool)

\* mode.lower().strip()
ModeNormalize(mode) ==
    CASE mode = " Hybrid" -> "hybrid"
      [] OTHER -> mode

retrieve(query, k, mode, backend, use_query_fusion, candidate_multiplier, k0, enable_rerank, rerank_pool, faiss, bm25) ==
    IF ModeNormalize(mode) = "hybrid"
    THEN hybrid_search(query, k, candidate_multiplier, k0, use_query_fusion,
                       enable_rerank, rerank_pool, faiss, bm25)
    ELSE IF ModeNormalize(mode) = "base"
    THEN base_search(query, k, backend, candidate_multiplier, k0, use_query_fusion,
                     enable_rerank, rerank_pool, faiss, bm25)
    ELSE RaiseError("ValueError: Unknown retrieval mode")

\* ------------------------------------------------------------------------
\* Direct calls of the retrieval functions
\* ------------------------------------------------------------------------
RETRIEVAL_CANDIDATE_MULTIPLIER == 4

RETRIEVAL_RERANK_POOL == 40

Rankings == RankingsOver(IndexIds, MaxRankLen)

\* The rankings handed to rrf_fuse directly.
FuseRankings == RankingsOver({c \in IndexIds : c <= MaxFuseChunks}, MaxRankLen)

\* What the index has for the queries a call issues: any ranking for the
\* first query, a ranking of at most MaxVariantLen chunks for each further one.
BackendResults(n) ==
    {r \in [1..n -> Rankings] : \A i \in 2..n : Len(r[i]) <= MaxVariantLen}

\* Number of queries a search call sends to its backends.
QueriesIssued(query, use_query_fusion) ==
    IF use_query_fusion THEN Len(query_variants(query)) ELSE 1

SearchQueries == {"", "   ", "ML-KEM.KeyGen", " Algorithm 19 "}

\* Configurations a caller may pass: the accepted ones, and one with each
\* rejected argument.
SearchConfigs ==
    {[top_k |-> t, candidate_multiplier |-> m, k0 |-> RETRIEVAL_RRF_K0,
      use_query_fusion |-> f, enable_rerank |-> r, rerank_pool |-> p] :
        t \in 1..MaxTopK, m \in {1, RETRIEVAL_CANDIDATE_MULTIPLIER},
        f \in BOOLEAN, r \in BOOLEAN, p \in {1, RETRIEVAL_RERANK_POOL}}
    \cup
    {[top_k |-> c[1], candidate_multiplier |-> c[2], k0 |-> RETRIEVAL_RRF_K0,
      use_query_fusion |-> f, enable_rerank |-> r, rerank_pool |-> c[3]] :
        c \in {<<0, RETRIEVAL_CANDIDATE_MULTIPLIER, RETRIEVAL_RERANK_POOL>>,
               <<1, 0, RETRIEVAL_RERANK_POOL>>,
               <<1, RETRIEVAL_CANDIDATE_MULTIPLIER, 0>>},
        f \in BOOLEAN, r \in BOOLEAN}

Unused == <<>>

QueryVariantsCall(q) == [fn |-> "query_variants", query |-> q]

RrfFuseCall(rs, t, k) == [fn |-> "rrf_fuse", rankings |-> rs, top_k |-> t, k0 |-> k]

HybridSearchCall(q, c, fr, br) ==
    [fn |-> "hybrid_search", query |-> q, config |-> c, faiss |-> fr, bm25 |-> br]

BaseSearchCall(q, c, b, res) ==
    [fn |-> "base_search", query |-> q, config |-> c, backend |-> b,
     faiss |-> IF b = "faiss" THEN res ELSE Unused,
     bm25 |-> IF b = "bm25" THEN res ELSE Unused]

RetrieveCall(q, c, m, fr, br) ==
    [fn |-> "retrieve", query |-> q, config |-> c, mode |-> m, backend |-> "faiss",
     faiss |-> fr, bm25 |-> br]

\* Short rankings only: retrieve adds nothing to what the search it picks does.
ShortResults(n) ==
    {r \in BackendResults(n) : \A i \in 1..n : Len(r[i]) <= MaxVariantLen}

Pending == [state |-> "pending", value |-> <<>>]

\* One call of one of the retrieval functions, with arguments of the bounds.
InitRetrieve ==
    /\ question = Question("general", FALSE, FALSE, FALSE, FALSE)
    /\ ba_question = question
    /\ AgentIdle
    /\ AnswerIdle
    /\ fn_ret = Pending
    /\ ThreadsIdle
    /\ \/ \E q \in QueryStrings : fn_call = QueryVariantsCall(q)
       \/ \E rs \in SeqsUpTo(FuseRankings, MaxRankings), t \in 0..MaxTopK,
             k \in {0, 2, RETRIEVAL_RRF_K0} :
             fn_call = RrfFuseCall(rs, t, k)
       \/ \E q \in SearchQueries, c \in SearchConfigs :
             \E fr, br \in BackendResults(QueriesIssued(q, c.use_query_fusion)) :
                fn_call = HybridSearchCall(q, c, fr, br)
       \/ \E q \in SearchQueries, c \in SearchConfigs, b \in {"faiss", "bm25"} :
             \E res \in BackendResults(QueriesIssued(q, c.use_query_fusion)) :
                fn_call = BaseSearchCall(q, c, b, res)
       \/ \E q \in SearchQueries, c \in SearchConfigs :
             fn_call = BaseSearchCall(q, c, "pgvector", Unused)
       \/ \E q \in {"", "ML-KEM.KeyGen"}, c \in SearchConfigs,
             m \in {"hybrid", " Hybrid", "base", "graph"} :
             \E fr, br \in ShortResults(QueriesIssued(q, c.use_query_fusion)) :
                fn_call = RetrieveCall(q, c, m, fr, br)

Calls(name) == fn_call.fn = name /\ fn_ret = Pending

CallUnchanged == UNCHANGED <<fn_call, agentVars, answerVars, sharedVars>>

Call_query_variants ==
    /\ Calls("query_variants")
    /\ fn_ret' = ReturnValue(query_variants(fn_call.query))
    /\ CallUnchanged

Call_rrf_fuse ==
    /\ Calls("rrf_fuse")
    /\ fn_ret' = rrf_fuse([i \in DOMAIN fn_call.rankings |-> BackendHits(fn_call.rankings[i])],
                          fn_call.top_k, fn_call.k0)
    /\ CallUnchanged

Call_hybrid_search ==
    /\ Calls("hybrid_search")
    /\ fn_ret' = hybrid_search(fn_call.query, fn_call.config.top_k,
                               fn_call.config.candidate_multiplier, fn_call.config.k0,
                               fn_call.config.use_query_fusion, fn_call.config.enable_rerank,
                               fn_call.config.rerank_pool, fn_call.faiss, fn_call.bm25)
    /\ CallUnchanged

Call_base_search ==
    /\ Calls("base_search")
    /\ fn_ret' = base_search(fn_call.query, fn_call.config.top_k, fn_call.backend,
                             fn_call.config.candidate_multiplier, fn_call.config.k0,
                             fn_call.config.use_query_fusion, fn_call.config.enable_rerank,
                             fn_call.config.rerank_pool, fn_call.faiss, fn_call.bm25)
    /\ CallUnchanged

Call_retrieve ==
    /\ Calls("retrieve")
    /\ fn_ret' = retrieve(fn_call.query, fn_call.config.top_k, fn_call.mode, fn_call.backend,
                          fn_call.config.use_query_fusion,
                          fn_call.config.candidate_multiplier, fn_call.config.k0,
                          fn_call.config.enable_rerank, fn_call.config.rerank_pool,
                          fn_call.faiss, fn_call.bm25)
    /\ CallUnchanged

NextRetrieve ==
    \/ Call_query_variants
    \/ Call_rrf_fuse
    \/ Call_hybrid_search
    \/ Call_base_search
    \/ Call_retrieve

SpecRetrieve == InitRetrieve /\ [][NextRetrieve]_vars

\* ------------------------------------------------------------------------
\* Properties of rrf_fuse (checked under SpecRetrieve)
\* ------------------------------------------------------------------------
ListPermutations(n) == {f \in [1..n -> 1..n] : \A i, j \in 1..n : i # j => f[i] # f[j]}

Permuted(s, f) == [i \in DOMAIN s |-> s[f[i]]]

FuseArgument(rankings) == [i \in DOMAIN rankings |-> BackendHits(rankings[i])]

FuseReturned ==
    /\ fn_call.fn = "rrf_fuse"
    /\ fn_ret.state = "returned"
    /\ fn_call.top_k > 0
    /\ fn_call.k0 > 0

ChunkIdsOf(hits) == [i \in DOMAIN hits |-> hits[i].chunk_id]

\* C12: for every list of rankings, every permutation of the list and every
\* top_k > 0 and k0 > 0, rrf_fuse returns the identical list: the same
\* chunks, in the same order, with the same records.
C12_RrfPermutationStable ==
    FuseReturned =>
        \A f \in ListPermutations(Len(fn_call.rankings)) :
            rrf_fuse(FuseArgument(Permuted(fn_call.rankings, f)),
                     fn_call.top_k, fn_call.k0) = fn_ret

\* The part of C12 about the chunks and their order alone.
C12_RrfPermutationSameChunks ==
    FuseReturned =>
        \A f \in ListPermutations(Len(fn_call.rankings)) :
            ChunkIdsOf(rrf_fuse(FuseArgument(Permuted(fn_call.rankings, f)),
                                fn_call.top_k, fn_call.k0).value)
            = ChunkIdsOf(fn_ret.value)

\* The accumulated RRF score of a chunk as an exact number: the sum over the
\* rankings of 1/(k0 + rank), in units of 1/RrfDenominator(k0).
RECURSIVE RrfDenominatorUpTo(_, _)
RrfDenominatorUpTo(k0, r) == IF r = 0 THEN 1 ELSE (k0 + r) * RrfDenominatorUpTo(k0, r - 1)

RrfDenominator(k0) == RrfDenominatorUpTo(k0, MaxRankLen)

RECURSIVE SumOver(_, _)
SumOver(terms, i) == IF i = 0 THEN 0 ELSE terms[i] + SumOver(terms, i - 1)

AccumulatedScore(rankings, chunk_id, k0) ==
    LET term(ranking) ==
            IF \E r \in DOMAIN ranking : ranking[r] = chunk_id
            THEN RrfDenominator(k0)
                 \div (k0 + CHOOSE r \in DOMAIN ranking : ranking[r] = chunk_id)
            ELSE 0
    IN  SumOver([i \in DOMAIN rankings |-> term(rankings[i])], Len(rankings))

RankedChunks(rankings) == UNION {Range(rankings[i]) : i \in DOMAIN rankings}

\* a comes before b in the claimed order of the fused list.
ClaimedBefore(rankings, k0, a, b) ==
    LET sa == AccumulatedScore(rankings, a, k0)
        sb == AccumulatedScore(rankings, b, k0)
    IN  \/ sa > sb
        \/ sa = sb /\ _tie_break_less(INDEX_CHUNKS[a], INDEX_CHUNKS[b])

\* C13: the output of rrf_fuse lists the chunks by descending accumulated RRF
\* score (the sum over the rankings of 1/(k0 + rank)), chunks of identical
\* accumulated score in ascending (doc_id, start_page, chunk_id), and it is
\* the first top_k chunks of that order.
C13_RrfOrder ==
    FuseReturned =>
        LET out == ChunkIdsOf(fn_ret.value)
            all == RankedChunks(fn_call.rankings)
        IN  /\ Range(out) \subseteq all
            /\ Len(out) = IF fn_call.top_k < Cardinality(all)
                          THEN fn_call.top_k ELSE Cardinality(all)
            /\ \A i, j \in DOMAIN out :
                  i < j => ClaimedBefore(fn_call.rankings, fn_call.k0, out[i], out[j])
            /\ \A i \in DOMAIN out : \A c \in all \ Range(out) :
                  ClaimedBefore(fn_call.rankings, fn_call.k0, out[i], c)

\* The same order on the scores as rrf_fuse computed them: the list is sorted
\* by descending score field with ties in ascending (doc_id, start_page,
\* chunk_id).
C13_RrfOrderOfComputedScores ==
    FuseReturned =>
        \A i, j \in DOMAIN fn_ret.value :
            i < j => RrfSortBefore(fn_ret.value[i], fn_ret.value[j])

\* ------------------------------------------------------------------------
\* Properties of hybrid_search (checked under SpecRetrieve)
\* ------------------------------------------------------------------------
\* The same hits per query, reported in any order.
Reorderings(results) ==
    LET orders(i) == {Permuted(results[i], f) : f \in ListPermutations(Len(results[i]))}
    IN  {g \in [DOMAIN results -> UNION {orders(i) : i \in DOMAIN results}] :
            \A i \in DOMAIN results : g[i] \in orders(i)}

HybridSearchOn(faiss, bm25) ==
    hybrid_search(fn_call.query, fn_call.config.top_k,
                  fn_call.config.candidate_multiplier, fn_call.config.k0,
                  fn_call.config.use_query_fusion, fn_call.config.enable_rerank,
                  fn_call.config.rerank_pool, faiss, bm25)

SameChunksForAnyReportOrder ==
    \A fr \in Reorderings(fn_call.faiss), br \in Reorderings(fn_call.bm25) :
        \E again \in {HybridSearchOn(fr, br)} :
            /\ again.state = "returned"
            /\ ChunkIdsOf(again.value) = ChunkIdsOf(fn_ret.value)

HybridReturned == fn_call.fn = "hybrid_search" /\ fn_ret.state = "returned"

NothingCutOff ==
    LET per_source_k == Max(fn_call.config.top_k * fn_call.config.candidate_multiplier,
                            fn_call.config.top_k)
        fused_pool == Max(fn_call.config.top_k, fn_call.config.rerank_pool)
    IN  /\ \A i \in DOMAIN fn_call.faiss : Len(fn_call.faiss[i]) <= per_source_k
        /\ \A i \in DOMAIN fn_call.bm25 : Len(fn_call.bm25[i]) <= per_source_k
        /\ Cardinality(RankedChunks(fn_call.faiss) \cup RankedChunks(fn_call.bm25))
              <= fused_pool

KeyAssignment(hits) ==
    LET key_to_cit == build_context_and_citations(select_evidence(hits))
    IN  [i \in DOMAIN key_to_cit |-> key_to_cit[i].chunk_id]

\* build_cited_answer has its evidence and is about to assign the keys.
EvidenceSelected == ba_pc = "selected"

\* The chunks the comparison fallback assigns its own keys c1, c2 to.
FallbackKeyAssignment(hits) ==
    LET key_to_cit == _comparison_fallback_answer(ba_question, hits).key_to_cit
    IN  [i \in DOMAIN key_to_cit |-> key_to_cit[i].chunk_id]

\* The hits with the ones at positions i and j exchanged. Every reordering of
\* a list is a chain of such exchanges, and every list of hits up to the
\* bound is the argument of some call, so a result that no exchange changes
\* is the same for all orderings.
Exchanged(hits, i, j) ==
    [k \in DOMAIN hits |-> IF k = i THEN hits[j] ELSE IF k = j THEN hits[i] ELSE hits[k]]

\* Exchanging two hits gives the same evidence, and so the same keys, in both
\* places where build_cited_answer assigns keys.
SameKeysForAnyHitOrder ==
    \A i, j \in DOMAIN ba_hits :
        i < j =>
            /\ select_evidence(Exchanged(ba_hits, i, j)) = ba_outcome.evidence
            /\ FallbackKeyAssignment(Exchanged(ba_hits, i, j)) = FallbackKeyAssignment(ba_hits)

\* Per chunk_id the hits keep the greatest score.
BestScore(chunk_id) ==
    CHOOSE s \in Scores :
        /\ \E i \in DOMAIN ba_hits : ba_hits[i].chunk_id = chunk_id /\ ba_hits[i].score = s
        /\ \A i \in DOMAIN ba_hits : ba_hits[i].chunk_id = chunk_id => ba_hits[i].score <= s

NoDuplicateChunks(ev) ==
    \A i, j \in DOMAIN ev : ev[i].chunk_id = ev[j].chunk_id => i = j

EvidenceInStableOrder(ev) ==
    \A i, j \in DOMAIN ev : i < j => StableSortBefore(ev[i], ev[j])

\* C15: for any two orderings of the same hits build_cited_answer assigns the
\* keys c1..cN to the same chunks; a chunk_id occurs once, and the evidence is
\* ordered by descending score, then (doc_id, start_page, end_page, chunk_id).
C15_KeysFollowStableOrder ==
    EvidenceSelected =>
        /\ SameKeysForAnyHitOrder
        /\ NoDuplicateChunks(ba_outcome.evidence)
        /\ EvidenceInStableOrder(ba_outcome.evidence)

\* The evidence entries that are hits themselves, with their best score.
IsBestHit(e) ==
    /\ \E i \in DOMAIN ba_hits : ba_hits[i].chunk_id = e.chunk_id
    /\ e.score = BestScore(e.chunk_id)

IsNeighborOfHit(e) ==
    \E i \in DOMAIN ba_hits :
        \E k \in DOMAIN _neighbor_hits(ba_hits[i], ASK_NEIGHBOR_WINDOW) :
            /\ _neighbor_hits(ba_hits[i], ASK_NEIGHBOR_WINDOW)[k].chunk_id = e.chunk_id
            /\ e.score < ba_hits[i].score

\* C15, amended: the keys are independent of the order of the hits; a
\* chunk_id occurs once; the evidence entries that are hits carry the best
\* score of their chunk_id and stand in the stable order among themselves;
\* every other entry is a same-document neighbour of a hit, scored below it.
C15_KeysIndependentOfHitOrder ==
    EvidenceSelected =>
        /\ SameKeysForAnyHitOrder
        /\ NoDuplicateChunks(ba_outcome.evidence)
        /\ \A i, j \in DOMAIN ba_outcome.evidence :
              (i < j /\ IsBestHit(ba_outcome.evidence[i]) /\ IsBestHit(ba_outcome.evidence[j]))
                  => StableSortBefore(ba_outcome.evidence[i], ba_outcome.evidence[j])
        /\ \A i \in DOMAIN ba_outcome.evidence :
              IsBestHit(ba_outcome.evidence[i]) \/ IsNeighborOfHit(ba_outcome.evidence[i])

\* Chunk 4 came in first with the lower score and twice; its better score
\* moves it in front of chunk 1, and its neighbour chunk 5 follows it as c2.
C15_Witness ==
    /\ EvidenceSelected
    /\ Len(ba_hits) = 3
    /\ ba_hits[1].chunk_id = 4 /\ ba_hits[1].score = 10
    /\ ba_hits[2].chunk_id = 1 /\ ba_hits[2].score = 10
    /\ ba_hits[3].chunk_id = 4 /\ ba_hits[3].score = 20
    /\ KeyAssignment(ba_hits) = <<4, 5, 1>>
    /\ ba_outcome.evidence = select_evidence(ba_hits)

\* ------------------------------------------------------------------------
\* top_k = 0 and the empty query (checked under SpecRetrieve)
\* ------------------------------------------------------------------------
SearchFunctions == {"base_search", "hybrid_search", "retrieve"}

CallFinished == fn_ret.state \in {"returned", "raised"}

TopKIsZero ==
    \/ fn_call.fn = "rrf_fuse" /\ fn_call.top_k = 0
    \/ fn_call.fn \in SearchFunctions /\ fn_call.config.top_k = 0

\* C16: with top_k = 0, rrf_fuse, base_search, hybrid_search and retrieve
\* each return the empty list.
C16_TopKZeroReturnsEmpty ==
    (CallFinished /\ TopKIsZero) => fn_ret = ReturnValue(<<>>)

TopKError == RaiseError("ValueError: top_k must be > 0")

\* C16, amended: with top_k = 0, rrf_fuse returns the empty list, while
\* base_search and hybrid_search, and retrieve in the modes that call them,
\* raise ValueError("top_k must be > 0").
C16_TopKZeroEmptyOrRejected ==
    (CallFinished /\ TopKIsZero) =>
        /\ fn_call.fn = "rrf_fuse" => fn_ret = ReturnValue(<<>>)
        /\ fn_call.fn \in {"base_search", "hybrid_search"} => fn_ret = TopKError
        /\ (fn_call.fn = "retrieve" /\ ModeNormalize(fn_call.mode) \in {"hybrid", "base"})
              => fn_ret = TopKError

\* hybrid_search was called with top_k = 0 on backends that have hits.
C16_Witness ==
    /\ fn_call.fn = "hybrid_search"
    /\ fn_call.config.top_k = 0
    /\ fn_call.query = "ML-KEM.KeyGen"
    /\ ~fn_call.config.use_query_fusion
    /\ fn_call.faiss = << <<1, 2>> >>
    /\ fn_ret = TopKError

EmptyQuery ==
    /\ fn_call.fn \in {"query_variants", "hybrid_search", "base_search"}
    /\ QueryStrip(fn_call.query) = ""

\* The call has arguments that the search functions accept.
AcceptedSearch ==
    /\ fn_call.fn \in {"hybrid_search", "base_search"}
    /\ fn_call.config.top_k > 0
    /\ fn_call.config.candidate_multiplier > 0
    /\ fn_call.config.rerank_pool > 0
    /\ fn_call.fn = "base_search" => fn_call.backend \in {"faiss", "bm25"}

\* C17: for an empty or whitespace-only query, query_variants returns the
\* empty list, and hybrid_search and base_search return an empty list without
\* raising, with or without query fusion and rerank.
C17_EmptyQueryEmptyResult ==
    (CallFinished /\ EmptyQuery /\ (fn_call.fn = "query_variants" \/ AcceptedSearch))
        => fn_ret = ReturnValue(<<>>)

\* The part of C17 that goes through the variant list: query_variants, and
\* the searches with query fusion on.
C17_EmptyQueryEmptyWithFusion ==
    (CallFinished /\ EmptyQuery
        /\ (fn_call.fn = "query_variants"
              \/ (AcceptedSearch /\ fn_call.config.use_query_fusion)))
        => fn_ret = ReturnValue(<<>>)

\* ------------------------------------------------------------------------
\* rag/embed.py : build_store_records
\* ------------------------------------------------------------------------
\* A chunk dict without a "text" key (one whose "text" is None holds NoneValue).
MissingKey == "<missing>"

\* ch.get("text", "")
GetText(ch) == IF ch.text = MissingKey THEN "" ELSE ch.text

\* str(x) on the values the model uses.
Str(x) == IF x = NoneValue THEN "None" ELSE x

StoreRecord(vector_id, ch, text) ==
    [vector_id |-> vector_id, chunk_id |-> ch.chunk_id, doc_id |-> ch.doc_id,
     start_page |-> ch.page_number, end_page |-> ch.page_number,
     page_number |-> ch.page_number, text |-> text]

\* The loop of build_store_records with its counter.
RECURSIVE StoreRecordsLoop(_, _, _, _)
StoreRecordsLoop(chunks, vector_id, texts, store_records) ==
    IF chunks = <<>> THEN [texts |-> texts, store |-> store_records]
    ELSE LET ch == Head(chunks)
             text == Strip(Str(GetText(ch)))
         IN  IF text = ""
             THEN StoreRecordsLoop(Tail(chunks), vector_id, texts, store_records)
             ELSE StoreRecordsLoop(Tail(chunks), vector_id + 1, Append(texts, text),
                                   Append(store_records, StoreRecord(vector_id, ch, text)))

\* build_store_records that skips nothing.
build_store_records_keep_empty(chunks) ==
    [texts |-> [i \in DOMAIN chunks |-> Strip(Str(GetText(chunks[i])))],
     store |-> [i \in DOMAIN chunks |->
                  StoreRecord(i - 1, chunks[i], Strip(Str(GetText(chunks[i]))))]]

build_store_records(chunks) == StoreRecordsLoop(chunks, 0, <<>>, <<>>)

\* ------------------------------------------------------------------------
\* rag/chunk.py : pack_blocks_into_chunks, run_chunking_per_page
\* A block is modelled by its length, a chunk by the blocks joined into it.
\* ------------------------------------------------------------------------
ChunkConfig(target_chars, overlap_blocks, min_chars, max_chars) ==
    [target_chars |-> target_chars, overlap_blocks |-> overlap_blocks,
     min_chars |-> min_chars, max_chars |-> max_chars]

DefaultChunkConfig == ChunkConfig(1400, 1, 250, 2200)

RECURSIVE SumSeq(_)
SumSeq(s) == IF s = <<>> THEN 0 ELSE Head(s) + SumSeq(Tail(s))

\* len("\n\n".join(cur).strip()); the blocks are stripped and non-empty.
JoinedLen(cur) == SumSeq(cur) + 2 * Max(0, Len(cur) - 1)

\* cur[-n:]
LastBlocks(cur, n) == SubSeq(cur, Max(1, Len(cur) - n + 1), Len(cur))

\* The packing state: emitted chunks, blocks of the current chunk, and the
\* running length the code keeps for it.
PackState(chunks, cur, cur_len) == [chunks |-> chunks, cur |-> cur, cur_len |-> cur_len]

flush(st, cfg) ==
    IF st.cur = <<>> THEN st
    ELSE LET carry == IF cfg.overlap_blocks > 0
                      THEN LastBlocks(st.cur, cfg.overlap_blocks) ELSE <<>>
         IN  PackState(IF JoinedLen(st.cur) >= cfg.min_chars
                       THEN Append(st.chunks, st.cur) ELSE st.chunks,
                       carry, JoinedLen(carry))

\* One iteration of the loop over the blocks.
PackBlock(st, blk, cfg) ==
    IF blk > cfg.max_chars /\ st.cur = <<>>
    THEN PackState(Append(st.chunks, <<blk>>), st.cur, st.cur_len)
    ELSE LET proposed == st.cur_len + (IF st.cur # <<>> THEN 2 ELSE 0) + blk
         IN  IF \/ proposed <= cfg.target_chars
                \/ (proposed <= cfg.max_chars /\ st.cur_len < cfg.min_chars)
             THEN PackState(st.chunks, Append(st.cur, blk), proposed)
             ELSE LET flushed == flush(st, cfg)
                  IN  IF blk > cfg.max_chars /\ flushed.cur = <<>>
                      THEN PackState(Append(flushed.chunks, <<blk>>), flushed.cur,
                                     flushed.cur_len)
                      ELSE PackState(flushed.chunks, Append(flushed.cur, blk), blk)

RECURSIVE PackLoop(_, _, _)
PackLoop(blocks, st, cfg) ==
    IF blocks = <<>> THEN st
    ELSE PackLoop(Tail(blocks), PackBlock(st, Head(blocks), cfg), cfg)

pack_blocks_into_chunks(blocks, cfg) ==
    flush(PackLoop(blocks, PackState(<<>>, <<>>, 0), cfg), cfg).chunks

\* The keys of by_doc in insertion order: documents as they first appear.
RECURSIVE DocsInFirstSeenOrder(_, _)
DocsInFirstSeenOrder(pages, seen) ==
    IF pages = <<>> THEN seen
    ELSE IF \E i \in DOMAIN seen : seen[i] = Head(pages).doc_id
         THEN DocsInFirstSeenOrder(Tail(pages), seen)
         ELSE DocsInFirstSeenOrder(Tail(pages), Append(seen, Head(pages).doc_id))

\* sorted(ps, key=page number), a stable sort: pages of one number stay in
\* their input order.
RECURSIVE SortedByPage(_)
SortedByPage(ps) ==
    IF ps = <<>> THEN <<>>
    ELSE LET m == CHOOSE i \in DOMAIN ps :
                      /\ \A j \in DOMAIN ps : ps[i].page_number <= ps[j].page_number
                      /\ \A j \in 1..(i - 1) : ps[j].page_number # ps[i].page_number
         IN  <<ps[m]>> \o SortedByPage([k \in 1..(Len(ps) - 1) |->
                                           IF k < m THEN ps[k] ELSE ps[k + 1]])

PagesOfDoc(pages, doc_id) ==
    LET Of(p) == p.doc_id = doc_id IN SelectSeq(pages, Of)

\* The chunk_id f"{doc_id}::p{page_no:04d}::c{i:03d}": the three parts, which
\* the format keeps apart (zero padding never truncates a number).
FormatChunkId(doc_id, page_no, i) == <<doc_id, page_no, i>>

ChunkRows(doc_id, p, cfg) ==
    LET chunk_texts == pack_blocks_into_chunks(p.blocks, cfg)
    IN  [k \in DOMAIN chunk_texts |->
            [chunk_id |-> FormatChunkId(doc_id, p.page_number, k - 1),
             doc_id |-> doc_id, page_number |-> p.page_number,
             start_page |-> p.page_number, end_page |-> p.page_number,
             text |-> chunk_texts[k], char_len |-> JoinedLen(chunk_texts[k])]]

\* The rows run_chunking_per_page writes; a page with empty text has no blocks.
run_chunking_per_page(pages, cfg) ==
    LET docs == DocsInFirstSeenOrder(pages, <<>>)
        ofDoc(d) == LET ps == SortedByPage(PagesOfDoc(pages, docs[d]))
                    IN  FlattenSeq([k \in DOMAIN ps |-> ChunkRows(docs[d], ps[k], cfg)])
    IN  FlattenSeq([d \in DOMAIN docs |-> ofDoc(d)])

\* ------------------------------------------------------------------------
\* Direct calls of the ingestion functions
\* ------------------------------------------------------------------------
RawTexts == {"hello", "", "  world  ", "\n\t", NoneValue, MissingKey}

\* Chunk dicts of one document, numbered as they stand in the list.
InputChunks(raw) ==
    [i \in DOMAIN raw |-> [chunk_id |-> i, doc_id |-> 1, page_number |-> i, text |-> raw[i]]]

BlockLengths == {100, 300, 1300, 2300}

ChunkConfigs ==
    {DefaultChunkConfig,
     [DefaultChunkConfig EXCEPT !.overlap_blocks = 0],
     [DefaultChunkConfig EXCEPT !.overlap_blocks = 2],
     [DefaultChunkConfig EXCEPT !.target_chars = 250, !.max_chars = 250]}

PageTexts == {<<>>, <<100>>, <<300>>, <<1300, 1300>>}

CleanedPages ==
    {[doc_id |-> d, page_number |-> n, blocks |-> b] :
        d \in 1..2, n \in 1..2, b \in PageTexts}

DistinctPages(pages) ==
    \A i, j \in DOMAIN pages :
        (pages[i].doc_id = pages[j].doc_id /\ pages[i].page_number = pages[j].page_number)
            => i = j

BuildStoreRecordsCall(chunks) == [fn |-> "build_store_records", chunks |-> chunks]

PackBlocksCall(blocks, cfg) == [fn |-> "pack_blocks_into_chunks", blocks |-> blocks, cfg |-> cfg]

RunChunkingCall(pages, cfg) == [fn |-> "run_chunking_per_page", pages |-> pages, cfg |-> cfg]

\* One call of one of the ingestion functions, with arguments of the bounds.
InitIngest ==
    /\ question = Question("general", FALSE, FALSE, FALSE, FALSE)
    /\ ba_question = question
    /\ AgentIdle
    /\ AnswerIdle
    /\ fn_ret = Pending
    /\ ThreadsIdle
    /\ \/ \E raw \in SeqsUpTo(RawTexts, MaxChunks) :
             fn_call = BuildStoreRecordsCall(InputChunks(raw))
       \/ \E blocks \in SeqsUpTo(BlockLengths, MaxBlocks), cfg \in ChunkConfigs :
             fn_call = PackBlocksCall(blocks, cfg)
       \/ \E pages \in SeqsUpTo(CleanedPages, MaxPages) :
             /\ DistinctPages(pages)
             /\ fn_call = RunChunkingCall(pages, DefaultChunkConfig)

Call_build_store_records ==
    /\ Calls("build_store_records")
    /\ fn_ret' = ReturnValue(build_store_records(fn_call.chunks))
    /\ CallUnchanged

Call_pack_blocks_into_chunks ==
    /\ Calls("pack_blocks_into_chunks")
    /\ fn_ret' = ReturnValue(pack_blocks_into_chunks(fn_call.blocks, fn_call.cfg))
    /\ CallUnchanged

Call_run_chunking_per_page ==
    /\ Calls("run_chunking_per_page")
    /\ fn_ret' = ReturnValue(run_chunking_per_page(fn_call.pages, fn_call.cfg))
    /\ CallUnchanged

NextIngest ==
    \/ Call_build_store_records
    \/ Call_pack_blocks_into_chunks
    \/ Call_run_chunking_per_page

SpecIngest == InitIngest /\ [][NextIngest]_vars

\* ------------------------------------------------------------------------
\* Properties of the ingestion functions (checked under SpecIngest)
\* ------------------------------------------------------------------------
StoreRecordsReturned == fn_call.fn = "build_store_records" /\ fn_ret.state = "returned"

\* The trimmed text of an input chunk.
TrimmedText(ch) == Strip(Str(GetText(ch)))

\* The positions in the input of the chunks with non-empty trimmed text, in
\* input order.
KeptPositions(chunks) ==
    SetToSortedSeq({i \in DOMAIN chunks : TrimmedText(chunks[i]) # ""})

\* C18: build_store_records returns (texts, store) of equal length with
\* store[i].vector_id == i, texts[i] the trimmed text of store[i], exactly the
\* chunks with non-empty trimmed text included, in the order of the input.
C18_StoreRecordsAligned ==
    StoreRecordsReturned =>
        LET texts == fn_ret.value.texts
            store == fn_ret.value.store
            kept == KeptPositions(fn_call.chunks)
        IN  /\ Len(texts) = Len(store)
            /\ Len(store) = Len(kept)
            /\ \A i \in DOMAIN store :
                  /\ store[i].vector_id = i - 1
                  /\ texts[i] = store[i].text
                  /\ store[i].chunk_id = fn_call.chunks[kept[i]].chunk_id
                  /\ store[i].text = TrimmedText(fn_call.chunks[kept[i]])
                  /\ store[i].text # ""

\* A whitespace-only chunk between two chunks with text: it is skipped and
\* the third chunk gets vector_id 1.
C18_Witness ==
    /\ StoreRecordsReturned
    /\ Len(fn_call.chunks) = 3
    /\ fn_call.chunks[1].text = "hello"
    /\ fn_call.chunks[2].text = "\n\t"
    /\ fn_call.chunks[3].text = "  world  "
    /\ fn_ret.value.texts = <<"hello", "world">>
    /\ fn_ret.value.store[2].vector_id = 1
    /\ fn_ret.value.store[2].chunk_id = 3

PackReturned == fn_call.fn = "pack_blocks_into_chunks" /\ fn_ret.state = "returned"

ValidChunkConfig(cfg) ==
    /\ cfg.min_chars <= cfg.target_chars
    /\ cfg.target_chars <= cfg.max_chars
    /\ cfg.overlap_blocks >= 0

\* A chunk that is one block longer than max_chars, standing alone.
OversizedStandalone(chunk, cfg) == Len(chunk) = 1 /\ chunk[1] > cfg.max_chars

\* C19: for a config with min_chars <= target_chars <= max_chars and
\* overlap_blocks >= 0, every chunk pack_blocks_into_chunks emits has a
\* length within [min_chars, max_chars], except a chunk that is exactly one
\* block longer than max_chars standing alone.
C19_ChunkLengthWithinBounds ==
    (PackReturned /\ ValidChunkConfig(fn_call.cfg)) =>
        \A k \in DOMAIN fn_ret.value :
            \/ /\ JoinedLen(fn_ret.value[k]) >= fn_call.cfg.min_chars
               /\ JoinedLen(fn_ret.value[k]) <= fn_call.cfg.max_chars
            \/ OversizedStandalone(fn_ret.value[k], fn_call.cfg)

\* What holds of C19: the lower bound always, the upper bound when no blocks
\* are carried over.
C19_WithinBoundsWithoutOverlap ==
    (PackReturned /\ ValidChunkConfig(fn_call.cfg)) =>
        \A k \in DOMAIN fn_ret.value :
            /\ JoinedLen(fn_ret.value[k]) >= fn_call.cfg.min_chars
            /\ fn_call.cfg.overlap_blocks = 0 =>
                  \/ JoinedLen(fn_ret.value[k]) <= fn_call.cfg.max_chars
                  \/ OversizedStandalone(fn_ret.value[k], fn_call.cfg)

RunChunkingReturned == fn_call.fn = "run_chunking_per_page" /\ fn_ret.state = "returned"

\* The index c<i> of a row's chunk_id.
IndexOf(row) == row.chunk_id[3]

\* (doc_id, page_number, index) of row a is below that of row b.
ChunkKeyLess(a, b) ==
    \/ a.doc_id < b.doc_id
    \/ /\ a.doc_id = b.doc_id
       /\ \/ a.page_number < b.page_number
          \/ a.page_number = b.page_number /\ IndexOf(a) < IndexOf(b)

\* The index counts the chunks of the page from 0, the ids are pairwise
\* distinct, and each chunk lies on its one page.
ChunkIdsWellFormed(rows) ==
    /\ \A i \in DOMAIN rows :
          /\ IndexOf(rows[i]) =
                Cardinality({j \in 1..(i - 1) :
                                /\ rows[j].doc_id = rows[i].doc_id
                                /\ rows[j].page_number = rows[i].page_number})
          /\ rows[i].chunk_id = FormatChunkId(rows[i].doc_id, rows[i].page_number,
                                              IndexOf(rows[i]))
          /\ rows[i].start_page = rows[i].page_number
          /\ rows[i].end_page = rows[i].page_number
    /\ \A i, j \in DOMAIN rows : rows[i].chunk_id = rows[j].chunk_id => i = j

\* C20: for cleaned pages with distinct (doc_id, page_number), the chunk list
\* of run_chunking_per_page is strictly increasing in (doc_id, page_number,
\* index), the index restarting at 0 on each page, so that all chunk_ids are
\* pairwise distinct and start_page == end_page == page_number.
C20_ChunksInKeyOrder ==
    (RunChunkingReturned /\ DistinctPages(fn_call.pages)) =>
        /\ \A i, j \in DOMAIN fn_ret.value :
              i < j => ChunkKeyLess(fn_ret.value[i], fn_ret.value[j])
        /\ ChunkIdsWellFormed(fn_ret.value)

\* The position at which a document first appears in the input.
FirstSeen(doc_id) ==
    CHOOSE i \in DOMAIN fn_call.pages :
        /\ fn_call.pages[i].doc_id = doc_id
        /\ \A j \in 1..(i - 1) : fn_call.pages[j].doc_id # doc_id

\* What holds of C20: the documents come in the order of their first page in
\* the input, and within a document the chunks are strictly increasing in
\* (page_number, index); the chunk ids are well formed.
C20_ChunksInInputDocumentOrder ==
    (RunChunkingReturned /\ DistinctPages(fn_call.pages)) =>
        /\ \A i, j \in DOMAIN fn_ret.value :
              i < j =>
                  IF fn_ret.value[i].doc_id = fn_ret.value[j].doc_id
                  THEN ChunkKeyLess(fn_ret.value[i], fn_ret.value[j])
                  ELSE FirstSeen(fn_ret.value[i].doc_id) < FirstSeen(fn_ret.value[j].doc_id)
        /\ ChunkIdsWellFormed(fn_ret.value)

\* ------------------------------------------------------------------------
\* eval/metrics.py : recall_at_k
\* ------------------------------------------------------------------------
spans_overlap(start_a, end_a, start_b, end_b) == ~(end_a < start_b \/ end_b < start_a)

hit_matches_gold(hit, gold) ==
    IF hit.doc_id # gold.doc_id THEN FALSE
    ELSE spans_overlap(hit.start_page, hit.end_page, gold.start_page, gold.end_page)

\* The float matched / float(len(gold)) as the pair of its operands.
Fraction(num, den) == [num |-> num, den |-> den]

\* The inner loop: the first gold span not yet used that the hit matches, 0
\* when there is none.
FirstUnusedMatch(hit, gold, used_gold) ==
    LET cand == {i \in DOMAIN gold : i \notin used_gold /\ hit_matches_gold(hit, gold[i])}
    IN  IF cand = {} THEN 0 ELSE CHOOSE i \in cand : \A j \in cand : i <= j

\* The outer loop over hits[:k] with its used_gold flags and matched counter.
RECURSIVE RecallLoop(_, _, _, _)
RecallLoop(hits, gold, used_gold, matched) ==
    IF hits = <<>> THEN matched
    ELSE LET i == FirstUnusedMatch(Head(hits), gold, used_gold)
         IN  IF i = 0 THEN RecallLoop(Tail(hits), gold, used_gold, matched)
             ELSE RecallLoop(Tail(hits), gold, used_gold \cup {i}, matched + 1)

recall_at_k(hits, gold, k) ==
    IF gold = <<>> THEN Fraction(0, 1)
    ELSE Fraction(RecallLoop(Prefix(hits, k), gold, {}, 0), Len(gold))

\* ------------------------------------------------------------------------
\* Direct calls of the evaluation metrics
\* ------------------------------------------------------------------------
PageSpans ==
    {[doc_id |-> d, start_page |-> a, end_page |-> b] :
        d \in 1..2, a \in 1..2, b \in 1..2}

RecallCall(hits, gold, k) == [fn |-> "recall_at_k", hits |-> hits, gold |-> gold, k |-> k]



\* ------------------------------------------------------------------------
\* Properties of recall_at_k (checked under SpecEval)
\* ------------------------------------------------------------------------
RecallReturned == fn_call.fn = "recall_at_k" /\ fn_ret.state = "returned"

\* The gold spans that at least one of the first k hits matches.
GoldMatchedInTopK ==
    {i \in DOMAIN fn_call.gold :
        \E j \in DOMAIN fn_call.hits :
            j <= fn_call.k /\ hit_matches_gold(fn_call.hits[j], fn_call.gold[i])}

\* C21: recall_at_k(hits, gold, k) is the number of gold spans matched by at
\* least one of the first k hits, each counted once, divided by the number of
\* gold spans.
C21_RecallIsMatchedGoldFraction ==
    (RecallReturned /\ fn_call.gold # <<>>) =>
        fn_ret.value = Fraction(Cardinality(GoldMatchedInTopK), Len(fn_call.gold))

\* What holds of C21: the count is never above the matched gold spans, never
\* above the number of hits looked at, and zero only when no gold span is
\* matched.
C21_RecallCountsEachHitOnce ==
    (RecallReturned /\ fn_call.gold # <<>>) =>
        /\ fn_ret.value.den = Len(fn_call.gold)
        /\ fn_ret.value.num <= Cardinality(GoldMatchedInTopK)
        /\ fn_ret.value.num <= Len(Prefix(fn_call.hits, fn_call.k))
        /\ fn_ret.value.num = 0 <=> GoldMatchedInTopK = {}

\* ------------------------------------------------------------------------
\* rag/retriever/bm25_retriever.py : BM25Retriever.search on an artifact
\* A query is the sequence of its words; an artifact holds, per document
\* (position = doc_idx + 1), the frequency of every index term in its text.
\* ------------------------------------------------------------------------
IndexTerms == {"ml", "kem"}

QueryWords == {"ml", "kem", "ml-kem"}

\* rag/index_bm25.py tokenize on a sequence of words: every word, and after
\* a compound word its parts.
RECURSIVE TokenizeWords(_)
TokenizeWords(words) ==
    IF words = <<>> THEN <<>>
    ELSE (IF Head(words) = "ml-kem" THEN <<"ml-kem", "ml", "kem">> ELSE <<Head(words)>>)
         \o TokenizeWords(Tail(words))

\* qtf: the distinct terms in first-occurrence order (dict insertion order).
RECURSIVE QtfKeys(_, _)
QtfKeys(q_terms, keys) ==
    IF q_terms = <<>> THEN keys
    ELSE QtfKeys(Tail(q_terms),
                 IF Head(q_terms) \in Range(keys) THEN keys ELSE Append(keys, Head(q_terms)))

QtfCount(q_terms, term) == Cardinality({i \in DOMAIN q_terms : q_terms[i] = term})

\* build_bm25_artifact: doc_lens, document frequency, postings in doc order.
DocLen(doc) == SumSeq([i \in 1..2 |-> IF i = 1 THEN doc["ml"] ELSE doc["kem"]])

SumDocLens(docs) == SumSeq([d \in DOMAIN docs |-> DocLen(docs[d])])

DocFreq(docs, term) == Cardinality({d \in DOMAIN docs : docs[d][term] > 0})

Postings(docs, term) ==
    IF term \notin IndexTerms THEN <<>>
    ELSE SetToSortedSeq({d \in DOMAIN docs : docs[d][term] > 0})

\* Floats of the artifact and of the scores are held in thousandths.
\* 1000 * log(num / den) for num > den, by the series
\* log(x) = 2 * (y + y^3/3 + y^5/5 + ...), y = (x - 1) / (x + 1).
RECURSIVE LogSeries(_, _, _)
LogSeries(y, power, n) ==
    IF power = 0 THEN 0
    ELSE power \div n + LogSeries(y, (((power * y) \div 10000) * y) \div 10000, n + 2)

LogMilli(num, den) ==
    (2 * LogSeries((10000 * (num - den)) \div (num + den),
                   (10000 * (num - den)) \div (num + den), 1) + 5) \div 10

\* idf = log(1 + (n_docs - df + 0.5) / (df + 0.5)) = log((2 n_docs + 2) / (2 df + 1));
\* None for a term of no document.
IdfTerms(docs) == {term \in IndexTerms : DocFreq(docs, term) > 0}

Idf(docs, term) ==
    IF term \notin IdfTerms(docs) THEN NoneValue
    ELSE LogMilli(2 * Len(docs) + 2, 2 * DocFreq(docs, term) + 1)

\* term_score with k1 = 1.5 and b = 0.75:
\* idf * tf * 2.5 / (tf + 1.5 * (0.25 + 0.75 * dl / avgdl)),
\* with avgdl = sum(doc_lens) / n_docs.
TermScore(docs, d, term) ==
    (Idf(docs, term) * 20 * docs[d][term] * SumDocLens(docs))
        \div (8 * docs[d][term] * SumDocLens(docs) + 3 * SumDocLens(docs)
                + 9 * DocLen(docs[d]) * Len(docs))

\* scores[doc_idx] += term_score * q_weight over the postings of one term;
\* a document enters the dict at its first posting.
RECURSIVE AddPostings(_, _, _, _, _)
AddPostings(docs, scores, postings, term, q_weight) ==
    IF postings = <<>> THEN scores
    ELSE LET d == Head(postings)
             at == {i \in DOMAIN scores : scores[i].doc_idx = d}
             added ==
                IF at = {}
                THEN Append(scores, [doc_idx |-> d,
                                     score |-> TermScore(docs, d, term) * q_weight])
                ELSE [i \in DOMAIN scores |->
                        IF i \in at
                        THEN [scores[i] EXCEPT !.score = @ + TermScore(docs, d, term) * q_weight]
                        ELSE scores[i]]
         IN  AddPostings(docs, added, Tail(postings), term, q_weight)

RECURSIVE ScoreTerms(_, _, _, _)
ScoreTerms(docs, q_terms, keys, scores) ==
    IF keys = <<>> THEN scores
    ELSE ScoreTerms(docs, q_terms, Tail(keys),
            IF Head(keys) \notin IdfTerms(docs) THEN scores
            ELSE AddPostings(docs, scores, Postings(docs, Head(keys)), Head(keys),
                             QtfCount(q_terms, Head(keys))))

\* sorted(scores.items(), key=lambda kv: kv[1], reverse=True): stable, so
\* items of equal score keep the order in which they entered the dict.
RECURSIVE InsertByScore(_, _)
InsertByScore(ranked, item) ==
    IF ranked = <<>> THEN <<item>>
    ELSE IF Head(ranked).score >= item.score
         THEN <<Head(ranked)>> \o InsertByScore(Tail(ranked), item)
         ELSE <<item>> \o ranked

RECURSIVE SortedByScore(_, _)
SortedByScore(items, ranked) ==
    IF items = <<>> THEN ranked
    ELSE SortedByScore(Tail(items), InsertByScore(ranked, Head(items)))

\* sorted(scores.items(), key=lambda kv: (-kv[1], kv[0])): what a tie-break
\* on doc_idx would give.
RECURSIVE InsertByScoreThenDocIdx(_, _)
InsertByScoreThenDocIdx(ranked, item) ==
    IF ranked = <<>> THEN <<item>>
    ELSE IF \/ Head(ranked).score > item.score
            \/ (Head(ranked).score = item.score /\ Head(ranked).doc_idx < item.doc_idx)
         THEN <<Head(ranked)>> \o InsertByScoreThenDocIdx(Tail(ranked), item)
         ELSE <<item>> \o ranked

\* BM25Retriever.search(query, k) on the artifact built from docs; a hit is
\* the pair of doc_idx and score.
BM25Retriever_search_artifact(docs, query, k) ==
    LET q_terms == TokenizeWords(query)
    IN  IF q_terms = <<>> THEN <<>>
        ELSE Prefix(SortedByScore(ScoreTerms(docs, q_terms, QtfKeys(q_terms, <<>>), <<>>), <<>>), k)

\* Direct calls of BM25Retriever.search.
Bm25Docs ==
    {docs \in SeqsUpTo([IndexTerms -> 0..MaxTf], MaxBm25Docs) :
        docs # <<>>}

\* Values of ASK_MAX_CONTEXT_CHARS: below one chunk, between, the default.
ContextCharBudgets == {1000, 8000, ASK_MAX_CONTEXT_CHARS}

SelectCall(hits, max_chunks, max_chars) == [fn |-> "select_evidence", hits |-> hits, max_chunks |-> max_chunks, max_chars |-> max_chars]

Bm25Call(docs, query, k) == [fn |-> "bm25_search", docs |-> docs, query |-> query, k |-> k]

Call_bm25_search ==
    /\ Calls("bm25_search")
    /\ fn_ret' = ReturnValue(BM25Retriever_search_artifact(fn_call.docs, fn_call.query, fn_call.k))
    /\ CallUnchanged

\* Direct calls of the evaluation metrics and of the BM25 retriever.
InitEval ==
    /\ question = Question("general", FALSE, FALSE, FALSE, FALSE)
    /\ ba_question = question
    /\ AgentIdle
    /\ AnswerIdle
    /\ fn_ret = Pending
    /\ ThreadsIdle
    /\ \/ \E hits \in SeqsUpTo({s \in PageSpans : s.start_page <= s.end_page}, MaxEvalHits),
             gold \in SeqsUpTo({s \in PageSpans : s.start_page <= s.end_page}, MaxGold),
             k \in 0..MaxK :
             fn_call = RecallCall(hits, gold, k)
       \/ \E docs \in Bm25Docs, query \in SeqsUpTo(QueryWords, MaxQueryWords),
             k \in 0..MaxK :
             fn_call = Bm25Call(docs, query, k)
       \/ \E hits \in SeqsUpTo(AllHits, MaxHits), max_chunks \in 1..MaxContextChunks,
             max_chars \in ContextCharBudgets :
             fn_call = SelectCall(hits, max_chunks, max_chars)

Call_recall_at_k ==
    /\ Calls("recall_at_k")
    /\ fn_ret' = ReturnValue(recall_at_k(fn_call.hits, fn_call.gold, fn_call.k))
    /\ CallUnchanged

\* select_evidence(hits) with SETTINGS.ASK_MAX_CONTEXT_CHUNKS = max_chunks and
\* SETTINGS.ASK_MAX_CONTEXT_CHARS = max_chars.
Call_select_evidence ==
    /\ Calls("select_evidence")
    /\ fn_ret' = ReturnValue(select_evidence_within(fn_call.hits, fn_call.max_chunks, fn_call.max_chars))
    /\ CallUnchanged

NextEval ==
    \/ Call_recall_at_k
    \/ Call_bm25_search
    \/ Call_select_evidence

SpecEval == InitEval /\ [][NextEval]_vars

\* ------------------------------------------------------------------------
\* Properties of BM25Retriever.search (checked under SpecEval)
\* ------------------------------------------------------------------------
Bm25Returned == fn_call.fn = "bm25_search" /\ fn_ret.state = "returned"

AtMostKHits(hits, k) == Len(hits) <= k

DescendingScore(hits) ==
    \A i, j \in DOMAIN hits : i < j => hits[i].score >= hits[j].score

TiesInDocIdxOrder(hits) ==
    \A i, j \in DOMAIN hits :
        (i < j /\ hits[i].score = hits[j].score) => hits[i].doc_idx < hits[j].doc_idx

\* The query with its words i and j exchanged.
ExchangedWords(query, i, j) ==
    [n \in DOMAIN query |-> IF n = i THEN query[j] ELSE IF n = j THEN query[i] ELSE query[n]]

SameHitsForAnyTermOrder ==
    \A i, j \in DOMAIN fn_call.query :
        BM25Retriever_search_artifact(fn_call.docs, ExchangedWords(fn_call.query, i, j),
                                      fn_call.k) = fn_ret.value

\* C22: BM25Retriever.search returns at most k hits in descending score
\* order, documents of equal score in ascending doc_idx order, and the same
\* hits whatever the order of the terms in the query.
C22_Bm25RankingDeterministic ==
    Bm25Returned =>
        /\ AtMostKHits(fn_ret.value, fn_call.k)
        /\ DescendingScore(fn_ret.value)
        /\ TiesInDocIdxOrder(fn_ret.value)
        /\ SameHitsForAnyTermOrder

\* What holds of C22: at most k hits, in descending score order.
C22_Bm25DescendingAtMostK ==
    Bm25Returned =>
        /\ AtMostKHits(fn_ret.value, fn_call.k)
        /\ DescendingScore(fn_ret.value)

\* ------------------------------------------------------------------------
\* Properties of node_assess_evidence (checked under Spec)
\* ------------------------------------------------------------------------
TooFewHits == Len(evidence) < MIN_EVIDENCE_HITS

AnchorRuleFails ==
    question.anchors /\
    \A i \in DOMAIN evidence : evidence[i].text.blank \/ ~evidence[i].text.anchor

CompareRuleFails ==
    question.compare /\ Cardinality({evidence[i].doc_id : i \in DOMAIN evidence}) < 2

FirstFailingRule ==
    IF TooFewHits THEN "insufficient_hits"
    ELSE IF AnchorRuleFails THEN "anchor_missing"
    ELSE "compare_doc_diversity_missing"

\* The budgets that are used up once assess_evidence has counted its step.
ExhaustedBudgetsAfterStep ==
    (IF steps' >= MAX_STEPS THEN {"step_budget_exhausted"} ELSE {})
    \cup (IF tool_calls' >= MAX_TOOL_CALLS THEN {"tool_budget_exhausted"} ELSE {})
    \cup (IF retrieval_round' >= MAX_RETRIEVAL_ROUNDS
          THEN {"retrieval_round_budget_exhausted"} ELSE {})

AssessOutcome ==
    /\ evidence_sufficient' = ~(TooFewHits \/ AnchorRuleFails \/ CompareRuleFails)
    /\ evidence_sufficient' => stop_reason' = "sufficient_evidence"
    /\ (~evidence_sufficient' /\ ExhaustedBudgetsAfterStep # {}) =>
            stop_reason' \in ExhaustedBudgetsAfterStep
    /\ (~evidence_sufficient' /\ ExhaustedBudgetsAfterStep = {}) =>
            stop_reason' = FirstFailingRule

DistinctChunkIds(ev) ==
    \A i, j \in DOMAIN ev : i # j => ev[i].chunk_id # ev[j].chunk_id

\* Position of the first item of ev with the given chunk_id.
FirstPosition(ev, chunk_id) ==
    CHOOSE i \in DOMAIN ev :
        /\ ev[i].chunk_id = chunk_id
        /\ \A j \in DOMAIN ev : ev[j].chunk_id = chunk_id => i <= j

\* What the round has seen, in arrival order: the evidence held before it,
\* then the tool's output.
SeenInRound == evidence \o tool_out'

MergeKeepsOldInPlace ==
    /\ Len(evidence') >= Len(evidence)
    /\ \A i \in DOMAIN evidence : evidence'[i] = evidence[i]

MergeAppendsNewInArrivalOrder ==
    /\ {evidence'[i].chunk_id : i \in DOMAIN evidence'}
            = {SeenInRound[i].chunk_id : i \in DOMAIN SeenInRound}
    /\ \A i, j \in DOMAIN evidence' :
            i < j => FirstPosition(SeenInRound, evidence'[i].chunk_id)
                        < FirstPosition(SeenInRound, evidence'[j].chunk_id)

MergeKeepsFirstOccurrence ==
    \A i \in DOMAIN evidence' :
        evidence'[i] = SeenInRound[FirstPosition(SeenInRound, evidence'[i].chunk_id)]

MergeKeepsHighestScore ==
    \A i \in DOMAIN evidence', j \in DOMAIN SeenInRound :
        SeenInRound[j].chunk_id = evidence'[i].chunk_id =>
            evidence'[i].score >= SeenInRound[j].score

SelectReturned == fn_call.fn = "select_evidence" /\ fn_ret.state = "returned"

\* Both limits hold for a list of accepted chunks; a single chunk is always
\* within the character limit.
WithinLimits(accepted, max_chunks, max_chars) ==
    /\ Len(accepted) <= max_chunks
    /\ (SumLen(accepted) <= max_chars \/ Len(accepted) = 1)

\* The longest prefix of the expanded list all of whose prefixes are within
\* the limits.
LongestPrefixWithinLimits(expanded, max_chunks, max_chars) ==
    LET fits(n) == \A m \in 1..n : WithinLimits(Prefix(expanded, m), max_chunks, max_chars)
        n == CHOOSE k \in 0..Len(expanded) :
                fits(k) /\ \A l \in 0..Len(expanded) : fits(l) => l <= k
    IN  Prefix(expanded, n)

\* Every chunk of the expanded list has text (Chunk.text is non-empty after trim).
ExpandedChunksHaveText(expanded) == \A i \in DOMAIN expanded : ~expanded[i].text.blank

\* C25: select_evidence accepts at most max_context_chunks chunks, whose
\* text lengths sum to at most max_context_chars unless exactly one chunk is
\* accepted, and accepts the chunks of the expanded list in order while
\* both limits hold.
C25_EvidenceWithinBudget ==
    SelectReturned =>
        /\ Len(fn_ret.value) <= fn_call.max_chunks
        /\ SumLen(fn_ret.value) > fn_call.max_chars => Len(fn_ret.value) = 1
        /\ ExpandedChunksHaveText(ExpandedHits(fn_call.hits, fn_call.max_chunks)) =>
                fn_ret.value = LongestPrefixWithinLimits(
                                    ExpandedHits(fn_call.hits, fn_call.max_chunks),
                                    fn_call.max_chunks, fn_call.max_chars)

\* A call where the chunk limit cuts an expanded list that the character
\* limit would have let through.
C25_Witness ==
    /\ SelectReturned
    /\ Len(fn_ret.value) = fn_call.max_chunks
    /\ Len(fn_ret.value) = 2
    /\ Len(ExpandedHits(fn_call.hits, fn_call.max_chunks)) > 2
    /\ SumLen(Prefix(ExpandedHits(fn_call.hits, fn_call.max_chunks), 3)) <= fn_call.max_chars
    /\ ExpandedChunksHaveText(ExpandedHits(fn_call.hits, fn_call.max_chunks))

\* ------------------------------------------------------------------------
\* Properties of the fallbacks of build_cited_answer (checked under SpecAnswer)
\* ------------------------------------------------------------------------
\* The call has returned after generate_fn returned a text.
ReturnedAfterGeneration == ba_pc = "returned" /\ ba_raw_answer # NONE

\* The key map shown to the generator.
PromptKeys == build_context_and_citations(ba_outcome.evidence)

\* The generator's text after validation: the cited answer, or the refusal.
ValidatedGeneratorAnswer == enforce_inline_citations(ba_raw_answer, PromptKeys)

GeneratorAnswerPasses == ValidatedGeneratorAnswer.answer.body # REFUSAL_TEXT

\* The two fallback texts after validation; the refusal when there is no text.
ValidatedAlgorithmFallback ==
    LET fb == _algorithm_fallback_answer(ba_question, ba_outcome.evidence, PromptKeys)
    IN  IF fb = NONE THEN RefusalResult ELSE enforce_inline_citations(fb, PromptKeys)

ValidatedComparisonFallback ==
    LET fb_cmp == _comparison_fallback_answer(ba_question, ba_hits)
    IN  IF fb_cmp.text = NONE THEN RefusalResult
        ELSE enforce_inline_citations(fb_cmp.text, fb_cmp.key_to_cit)

\* C26: a generator answer that passes validation is what build_cited_answer
\* returns; otherwise the algorithm fallback is returned if it passes
\* validation, else the comparison fallback if it passes validation, else
\* the canonical refusal.
C26_FallbacksOnlyAfterRefusal ==
    ReturnedAfterGeneration =>
        ba_outcome.result =
            IF GeneratorAnswerPasses THEN ValidatedGeneratorAnswer
            ELSE IF ValidatedAlgorithmFallback.answer.body # REFUSAL_TEXT
                 THEN ValidatedAlgorithmFallback
            ELSE IF ValidatedComparisonFallback.answer.body # REFUSAL_TEXT
                 THEN ValidatedComparisonFallback
            ELSE RefusalResult

\* The generator refused, both fallbacks have a valid text of their own,
\* and the algorithm steps were returned.
C26_Witness ==
    /\ ReturnedAfterGeneration
    /\ ~GeneratorAnswerPasses
    /\ ValidatedAlgorithmFallback.answer.body # REFUSAL_TEXT
    /\ ValidatedComparisonFallback.answer.body # REFUSAL_TEXT
    /\ ValidatedAlgorithmFallback # ValidatedComparisonFallback
    /\ ba_outcome.result = ValidatedAlgorithmFallback

\* ------------------------------------------------------------------------
\* Concurrent run_agent invocations (rag/lc/graph.py run_agent, one thread
\* each) over the shared module-level data. A thread steps from node to
\* node on its own AgentState; the loads of the two lazily filled caches
\* are split at the points where another thread can run in between.
\* ------------------------------------------------------------------------
Threads == 1..MaxThreads

\* The page ranges the runs ask a summary of (plan args of the summarize tool).
SummarizeRequests ==
    {[doc_id |-> d, start_page |-> 1, end_page |-> e] : d \in 1..2, e \in 1..2}

\* chunks.jsonl / chunk_store.jsonl as read from disk: the rows, or nothing
\* when the file does not exist.
FileRows(exists) == IF exists THEN CHUNK_STORE ELSE <<>>

\* rag/lc/state_utils.py init_state, with the keys the nodes add later at
\* the values state.get gives for them.
init_state(request) ==
    [question |-> request, evidence |-> <<>>, citations |-> <<>>,
     draft_answer |-> Lit(""), final_answer |-> Lit(""), tool_calls |-> 0, steps |-> 0,
     retrieval_round |-> 0, evidence_sufficient |-> FALSE, stop_reason |-> ""]

\* sorted by (start_page, chunk_id): the rows are held in that order.
_chunks_for_doc_pages(rows, doc_id, start_page, end_page) ==
    SelectSeq(rows, LAMBDA r : r.doc_id = doc_id /\ r.start_page <= end_page
                                /\ r.end_page >= start_page)

\* tools.summarize: the rows of the page range as evidence with score 0.
summarize(rows, request) ==
    LET chunks == _chunks_for_doc_pages(rows, request.doc_id, request.start_page,
                                        request.end_page)
    IN  [i \in DOMAIN chunks |-> ChunkHit(chunks[i], 0)]

\* What the check at the head of _load_chunks_meta leaves in the global on
\* a miss, publishing an empty list before the file is read.
_load_chunks_meta_on_miss_publish_first(exists) == <<>>

\* What the check at the head of _load_chunks_meta leaves in the global on
\* a miss: [] when the file does not exist, else it stays None.
_load_chunks_meta_on_miss(exists) == IF exists THEN NoneValue ELSE <<>>

\* The nodes, each on the AgentState of its own run.
ThreadBump(st) == [st EXCEPT !.steps = @ + 1]

ThreadRetrieve(st, rows) ==
    [ThreadBump(st) EXCEPT !.tool_calls = @ + 1, !.retrieval_round = @ + 1,
                           !.evidence = _merge_evidence(@, summarize(rows, st.question))]

ThreadBudgetReason(st) ==
    _budget_limit_reason(st.steps, st.tool_calls, st.retrieval_round,
                         MAX_STEPS, MAX_TOOL_CALLS, MAX_RETRIEVAL_ROUNDS)

ThreadAssess(st) ==
    LET bumped == ThreadBump(st)
        sufficient == Len(st.evidence) >= MIN_EVIDENCE_HITS
    IN  [bumped EXCEPT !.evidence_sufficient = sufficient,
                       !.stop_reason = IF sufficient THEN "sufficient_evidence"
                                       ELSE IF ThreadBudgetReason(bumped) # ""
                                            THEN ThreadBudgetReason(bumped)
                                            ELSE "insufficient_hits"]

\* select_evidence finds no neighbour when the chunk store maps are empty.
ThreadSelectEvidence(ev, maps) ==
    IF maps = <<>>
    THEN ApplyBudget(Prefix(SortedByStableKey(BestByChunk(ev, {})),
                            ASK_MAX_CONTEXT_CHUNKS), <<>>)
    ELSE select_evidence(ev)

\* The generator is a function of the prompt: it cites the first chunk.
ThreadAnswer(st, maps) ==
    LET out == AnswerFromEvidence(Question("general", FALSE, FALSE, FALSE, FALSE),
                                  st.evidence, ThreadSelectEvidence(st.evidence, maps),
                                  GenOutcome(0, Prose(<<{1}>>, {})))
    IN  IF ~st.evidence_sufficient \/ st.evidence = <<>> THEN ThreadBump(st)
        ELSE [ThreadBump(st) EXCEPT !.draft_answer = StripText(out.result.answer),
                                    !.citations = out.result.citations]

ThreadVerify(st) ==
    [ThreadBump(st) EXCEPT
        !.final_answer =
            IF ShouldRefuse(st.evidence_sufficient, st.draft_answer, st.evidence, st.citations)
            THEN Lit(REFUSAL_TEXT) ELSE st.draft_answer,
        !.citations =
            IF ShouldRefuse(st.evidence_sufficient, st.draft_answer, st.evidence, st.citations)
            THEN <<>> ELSE @]

ThreadRec(pc_, st, rows, maps) == [pc |-> pc_, state |-> st, rows |-> rows, maps |-> maps]

At(t, pc_) == thread[t].pc = pc_

Goto(t, pc_, st) == thread' = [thread EXCEPT ![t].pc = pc_, ![t].state = st]

ThreadUnchanged == UNCHANGED <<agentVars, answerVars, fn_call, fn_ret, data_files_exist>>

InitThreads ==
    /\ question = Question("general", FALSE, FALSE, FALSE, FALSE)
    /\ ba_question = question
    /\ AgentIdle
    /\ AnswerIdle
    /\ fn_call = [fn |-> "idle"]
    /\ fn_ret = [state |-> "idle", value |-> <<>>]
    /\ thread \in [Threads -> {ThreadRec("route", init_state(r), NoneValue, NoneValue) :
                                r \in SummarizeRequests}]
    /\ CHUNKS_META_CACHE = NoneValue
    /\ chunk_store_maps_cache = NoneValue
    /\ data_files_exist \in BOOLEAN

T_route(t) ==
    /\ At(t, "route")
    /\ Goto(t, "retrieve", ThreadBump(thread[t].state))
    /\ UNCHANGED <<CHUNKS_META_CACHE, chunk_store_maps_cache>>
    /\ ThreadUnchanged

\* node_retrieve up to the head of _load_chunks_meta: the cached rows on a
\* hit; on a miss the thread goes on to read the file.
T_load_chunks_meta_check(t) ==
    /\ At(t, "retrieve")
    /\ IF CHUNKS_META_CACHE # NoneValue
       THEN /\ thread' = [thread EXCEPT ![t].pc = "merge", ![t].rows = CHUNKS_META_CACHE]
            /\ UNCHANGED CHUNKS_META_CACHE
       ELSE /\ CHUNKS_META_CACHE' = _load_chunks_meta_on_miss(data_files_exist)
            /\ thread' = [thread EXCEPT
                            ![t].pc = IF data_files_exist THEN "meta_read" ELSE "merge",
                            ![t].rows = IF data_files_exist THEN NoneValue ELSE <<>>]
    /\ UNCHANGED chunk_store_maps_cache
    /\ ThreadUnchanged

\* The loop over the lines of chunks.jsonl, into the local `rows`.
T_load_chunks_meta_read(t) ==
    /\ At(t, "meta_read")
    /\ thread' = [thread EXCEPT ![t].pc = "meta_store", ![t].rows = FileRows(data_files_exist)]
    /\ UNCHANGED <<CHUNKS_META_CACHE, chunk_store_maps_cache>>
    /\ ThreadUnchanged

\* _CHUNKS_META_CACHE = rows
T_load_chunks_meta_store(t) ==
    /\ At(t, "meta_store")
    /\ CHUNKS_META_CACHE' = thread[t].rows
    /\ thread' = [thread EXCEPT ![t].pc = "merge"]
    /\ UNCHANGED chunk_store_maps_cache
    /\ ThreadUnchanged

\* The rest of node_retrieve: the tool's evidence merged into the state.
T_retrieve(t) ==
    /\ At(t, "merge")
    /\ Goto(t, "assess_evidence", ThreadRetrieve(thread[t].state, thread[t].rows))
    /\ UNCHANGED <<CHUNKS_META_CACHE, chunk_store_maps_cache>>
    /\ ThreadUnchanged

T_assess_evidence(t) ==
    /\ At(t, "assess_evidence")
    /\ LET st == ThreadAssess(thread[t].state)
       IN  Goto(t, _assess_edge(st.evidence_sufficient, ThreadBudgetReason(st)), st)
    /\ UNCHANGED <<CHUNKS_META_CACHE, chunk_store_maps_cache>>
    /\ ThreadUnchanged

T_refine_query(t) ==
    /\ At(t, "refine_query")
    /\ LET st == ThreadBump(thread[t].state)
       IN  Goto(t, _refine_edge(ThreadBudgetReason(st)), st)
    /\ UNCHANGED <<CHUNKS_META_CACHE, chunk_store_maps_cache>>
    /\ ThreadUnchanged

\* node_answer up to the lru_cache lookup of _load_chunk_store_maps.
T_load_chunk_store_maps_check(t) ==
    /\ At(t, "answer")
    /\ thread' = [thread EXCEPT
                    ![t].pc = IF chunk_store_maps_cache # NoneValue THEN "select" ELSE "maps_read",
                    ![t].maps = chunk_store_maps_cache]
    /\ UNCHANGED <<CHUNKS_META_CACHE, chunk_store_maps_cache>>
    /\ ThreadUnchanged

\* The wrapped function runs outside the cache's lock, then its result is stored.
T_load_chunk_store_maps_read(t) ==
    /\ At(t, "maps_read")
    /\ thread' = [thread EXCEPT ![t].pc = "maps_store", ![t].maps = FileRows(data_files_exist)]
    /\ UNCHANGED <<CHUNKS_META_CACHE, chunk_store_maps_cache>>
    /\ ThreadUnchanged

T_load_chunk_store_maps_store(t) ==
    /\ At(t, "maps_store")
    /\ chunk_store_maps_cache' = thread[t].maps
    /\ thread' = [thread EXCEPT ![t].pc = "select"]
    /\ UNCHANGED CHUNKS_META_CACHE
    /\ ThreadUnchanged

T_answer(t) ==
    /\ At(t, "select")
    /\ Goto(t, "verify_or_refuse", ThreadAnswer(thread[t].state, thread[t].maps))
    /\ UNCHANGED <<CHUNKS_META_CACHE, chunk_store_maps_cache>>
    /\ ThreadUnchanged

T_verify_or_refuse(t) ==
    /\ At(t, "verify_or_refuse")
    /\ Goto(t, "END", ThreadVerify(thread[t].state))
    /\ UNCHANGED <<CHUNKS_META_CACHE, chunk_store_maps_cache>>
    /\ ThreadUnchanged

NextThreads ==
    \E t \in Threads :
        \/ T_route(t)
        \/ T_load_chunks_meta_check(t)
        \/ T_load_chunks_meta_read(t)
        \/ T_load_chunks_meta_store(t)
        \/ T_retrieve(t)
        \/ T_assess_evidence(t)
        \/ T_refine_query(t)
        \/ T_load_chunk_store_maps_check(t)
        \/ T_load_chunk_store_maps_read(t)
        \/ T_load_chunk_store_maps_store(t)
        \/ T_answer(t)
        \/ T_verify_or_refuse(t)

SpecThreads == InitThreads /\ [][NextThreads]_vars

\* ------------------------------------------------------------------------
\* Properties of concurrent runs (checked under SpecThreads)
\* ------------------------------------------------------------------------
\* The final AgentState of a run that has the process to itself: the nodes
\* in the order of the graph's edges, every cache filled from the files.
RECURSIVE RunAloneFrom(_, _, _)
RunAloneFrom(node, st, exists) ==
    CASE node = "route" -> RunAloneFrom("retrieve", ThreadBump(st), exists)
      [] node = "retrieve" ->
            RunAloneFrom("assess_evidence", ThreadRetrieve(st, FileRows(exists)), exists)
      [] node = "assess_evidence" ->
            RunAloneFrom(_assess_edge(ThreadAssess(st).evidence_sufficient,
                                      ThreadBudgetReason(ThreadAssess(st))),
                         ThreadAssess(st), exists)
      [] node = "refine_query" ->
            RunAloneFrom(_refine_edge(ThreadBudgetReason(ThreadBump(st))), ThreadBump(st), exists)
      [] node = "answer" ->
            RunAloneFrom("verify_or_refuse", ThreadAnswer(st, FileRows(exists)), exists)
      [] OTHER -> ThreadVerify(st)

RunAlone(request) == RunAloneFrom("route", init_state(request), data_files_exist)

FinishedRunsAsAlone ==
    \A t \in DOMAIN thread :
        At(t, "END") => thread[t].state = RunAlone(thread[t].state.question)

\* A filled cache holds what the files hold.
CachesHoldFileContents ==
    /\ CHUNKS_META_CACHE = NoneValue \/ CHUNKS_META_CACHE = FileRows(data_files_exist)
    /\ chunk_store_maps_cache = NoneValue \/ chunk_store_maps_cache = FileRows(data_files_exist)

\* A step changes the AgentState of one run at most, and never empties or
\* changes a filled cache.
StepTouchesOneRun ==
    /\ \A t, u \in DOMAIN thread :
            (t # u /\ thread'[t] # thread[t]) => thread'[u] = thread[u]
    /\ CHUNKS_META_CACHE # NoneValue => CHUNKS_META_CACHE' = CHUNKS_META_CACHE
    /\ chunk_store_maps_cache # NoneValue => chunk_store_maps_cache' = chunk_store_maps_cache

EntryBeyondStepBudget == steps' = steps + 1 /\ steps >= MAX_STEPS

\* C28: with max_steps >= 1 and min_evidence_hits >= 1 the steps counter is
\* never above max_steps + 2, at the end of a run in particular; the nodes
\* entered with the step budget used up are assess_evidence, answer and
\* verify_or_refuse only, and there are at most two such entries in a run.
C28_StepsOvershootAtMostTwo ==
    /\ []((MAX_STEPS >= 1 /\ MIN_EVIDENCE_HITS >= 1) => steps <= MAX_STEPS + 2)
    /\ [][(MIN_EVIDENCE_HITS >= 1 /\ EntryBeyondStepBudget) =>
            /\ pc \in {"assess_evidence", "answer", "verify_or_refuse"}
            /\ steps' - MAX_STEPS <= 2]_vars

\* A run that ended two node entries beyond its step budget, after the
\* evidence turned out sufficient on the assessment that used the budget up.
C28_Witness ==
    /\ Ended
    /\ MIN_EVIDENCE_HITS >= 1
    /\ steps = MAX_STEPS + 2
    /\ evidence_sufficient
    /\ retrieval_round >= 1


\* ------------------------------------------------------------------------
\* Final and transient values of stop_reason
\* ------------------------------------------------------------------------
AssessmentReasons == {"insufficient_hits", "anchor_missing", "compare_doc_diversity_missing"}

FinalStopReasons == {"sufficient_evidence"} \cup BudgetReasons

\* run_agent is over: the graph reached END or the generator's error escaped.
RunOver == pc \in {"END", "raised"}

FinalReasonsAreBudgetOrSufficient ==
    RunOver =>
        /\ stop_reason \in FinalStopReasons
        /\ stop_reason \notin AssessmentReasons
        /\ refusal_reason \notin AssessmentReasons

ReturnedNonRefusal ==
    /\ ba_pc = "returned"
    /\ ba_outcome.result.answer.body # REFUSAL_TEXT

\* The citation has key c<i> for a position i of the accepted evidence and
\* is the citation of the chunk at that position, as in the prompt.
RefersToAcceptedChunk(cit) ==
    /\ cit.key \in DOMAIN ba_outcome.evidence
    /\ cit = PromptKeys[cit.key]

\* C30: in every non-refusal result of build_cited_answer each returned
\* citation with key c<i> refers to the i-th chunk of the evidence accepted
\* by select_evidence (the key-to-chunk mapping of the prompt), and no
\* citation refers to a chunk outside the accepted evidence, whichever of
\* the generator, the algorithm fallback or the comparison fallback the
\* answer comes from.
C30_CitationsReferToAcceptedEvidence ==
    ReturnedNonRefusal =>
        \A i \in DOMAIN ba_outcome.result.citations :
            /\ RefersToAcceptedChunk(ba_outcome.result.citations[i])
            /\ \E j \in DOMAIN ba_outcome.evidence :
                  ba_outcome.evidence[j].chunk_id = ba_outcome.result.citations[i].chunk_id

====
